---------------------------- MODULE Spec2Model ----------------------------
(***************************************************************************)
(* A model of the Xeros process nucleus: PCB table and PID policy, the     *)
(* process queues, the dispatcher, message passing, the sleep delta list   *)
(* and the signal machinery.                                               *)
(*                                                                         *)
(* One step of the model is one iteration of dispatch(): the request the   *)
(* running process (or the hardware) raises, its service routine, then     *)
(* handle_pending_signals() and the context switch into the process that   *)
(* is current afterwards.  Every state is therefore a state in which       *)
(* control is in user mode.                                                *)
(*                                                                         *)
(* The kernel state is threaded through the service routines as a record   *)
(* k whose fields are the variables below; a routine that returns a value  *)
(* returns a record [k |-> the new kernel state, rc/proc |-> the value].   *)
(***************************************************************************)
EXTENDS Integers, Sequences, FiniteSets, TLC

(* ------------------------------------------------------------------ *)
(* Program constants (xeroskernel.h)                                    *)
(* ------------------------------------------------------------------ *)
PCB_TABLE_SIZE == 32
NUM_PRIORITIES == 4
INIT_PRIORITY == 3
IDLE_PROC_PID == 0
TIME_SLICE == 10
SIGNAL_TABLE_SIZE == 32
\* sizeof(unsigned long) on the 32-bit target
BUFFER_SIZE == 4
DEVICE_TABLE_SIZE == 2
FD_TABLE_SIZE == 4
\* kbd.h: the ring buffer (one slot stays empty), the default EOF character
KBD_BUFFER_SIZE == 5
DEFAULT_EOF == 4
NOCHAR == 256
\* '\n'
NEWLINE == 10
IOCTL_CHANGE_EOF == 53
IOCTL_ECHO_OFF == 55
IOCTL_ECHO_ON == 56
PARAGRAPH_SIZE == 16
PROCESS_STACK_SIZE == 8192
\* mem.c: sizeof(mem_header_t), four 32-bit fields
HEADER_SIZE == 16

(* ------------------------------------------------------------------ *)
(* Bounds of the model                                                  *)
(* ------------------------------------------------------------------ *)
\* (the other bounds are defined with the specifications that use them)
\* cells of a process's read buffer that are followed
MemLen == 4
\* the machine's memory map, set at boot: the end of the kernel image, the
\* hole of the PC's memory, and the top of memory (4 MB)
freemem == 196600
HOLESTART == 655360
HOLEEND == 1662976
maxaddr == 4194304

(* ------------------------------------------------------------------ *)
(* Values                                                               *)
(* ------------------------------------------------------------------ *)
Slots == 0 .. (PCB_TABLE_SIZE - 1)
\* the null pointer, and the address of the idle PCB (outside pcb_table)
NULLP == -1
IDLE == PCB_TABLE_SIZE
Signals == 0 .. (SIGNAL_TABLE_SIZE - 1)
\* handler pointers: null, the address of sysstop, a user handler
H_NULL == "null"
H_SYSSTOP == "sysstop"
H_USER == "handler"
BlockedQueueIds == {"SENDER", "RECEIVER", "WAIT"}

INT_MAX == 2147483647
INT_MIN == (-2147483647) - 1
\* a + b in a 32-bit two's complement int, for b >= 0 (computed without
\* leaving the 32-bit range)
AddInt(a, b) ==
    IF a > INT_MAX - b THEN INT_MIN + ((a - (INT_MAX - b)) - 1) ELSE a + b
\* C's % on ints truncates towards zero
CRem(a, b) == IF a >= 0 THEN a % b ELSE -((-a) % b)

SeqToSet(s) == {s[i] : i \in 1 .. Len(s)}
SeqWithout(s, x) == SelectSeq(s, LAMBDA y : y # x)

(* ------------------------------------------------------------------ *)
(* queue.c                                                              *)
(* ------------------------------------------------------------------ *)
enqueue(queue, proc) == Append(queue, proc)
is_empty(queue) == Len(queue) = 0
size(queue) == Len(queue)
\* dequeue: the head, or NULL for an empty queue, and the queue left
dequeue(queue) ==
    IF Len(queue) = 0 THEN [proc |-> NULLP, queue |-> queue]
    ELSE [proc |-> Head(queue), queue |-> Tail(queue)]
peek_tail(queue) == IF Len(queue) = 0 THEN NULLP ELSE queue[Len(queue)]
\* remove: unlink proc, the order of the others kept
remove(queue, proc) == SeqWithout(queue, proc)


(* ------------------------------------------------------------------ *)
(* State                                                                *)
(* ------------------------------------------------------------------ *)
VARIABLES
    pcb_table,          \* disp.c: static pcb_t pcb_table[PCB_TABLE_SIZE]
    ready_queues,       \* disp.c: one FIFO of slots per priority
    stopped_queue,      \* disp.c: the unused PCBs
    receive_any_queue,  \* msg.c: processes blocked in a receive-any
    sleep_queue,        \* sleep.c: the delta list (keys are pcb.key)
    current_proc,       \* disp.c: a slot, or IDLE
    idle_proc,          \* disp.c: the idle PCB
    user_proc_count,    \* disp.c
    panic,              \* an assert() of the kernel failed: it spins for ever
    umem,               \* user memory: each process's from_pid and num cells
    ucall,              \* per process, per context: the system call in progress
    wake_left,          \* per sleeper: timer ticks left until its requested wake-up
    creates,            \* number of processes created since Init
    dead_pids,          \* the PIDs of the processes that have terminated
    evt,                \* what the last dispatcher iteration did
    kbd,                \* kbd.c: the driver's static variables
    ubuf,               \* user memory: each process's read buffer
    mem,                \* mem.c: the free list and the allocated blocks
    ps                  \* user memory: the words written by the last sysgetcputimes

vars == <<pcb_table, ready_queues, stopped_queue, receive_any_queue, sleep_queue,
          current_proc, idle_proc, user_proc_count, panic, umem, ucall,
          wake_left, creates, dead_pids, evt, kbd, ubuf, mem, ps>>

\* the kernel state as one record
K ==
    [pcb_table |-> pcb_table, ready_queues |-> ready_queues,
     stopped_queue |-> stopped_queue, receive_any_queue |-> receive_any_queue,
     sleep_queue |-> sleep_queue, current_proc |-> current_proc,
     idle_proc |-> idle_proc, user_proc_count |-> user_proc_count,
     panic |-> panic, umem |-> umem, ucall |-> ucall, wake_left |-> wake_left,
     creates |-> creates, dead_pids |-> dead_pids, evt |-> evt,
     kbd |-> kbd, ubuf |-> ubuf, mem |-> mem, ps |-> ps]

\* addresses of the caller's from_pid and num cells, as sysrecv passes them
PTR_FROM == -101
PTR_NUM == -102

\* a system call in progress: its name and arguments, why the kernel ended it
\* ("match", "term", "tick", "signal", "only": one entry per wake-up), and
\* the timer ticks a sleep had left when a signal ended it
NoCall == [name |-> "none", args |-> <<>>, why |-> <<>>, aux |-> 0]
Call(name, args) == [name |-> name, args |-> args, why |-> <<>>, aux |-> 0]
\* the call in progress in the top context of proc is ended for reason
Why(k, proc, reason) ==
    [k EXCEPT !.ucall[proc][Len(k.ucall[proc])].why = Append(@, reason)]

NoRet == [proc |-> NULLP, name |-> "none", args |-> <<>>, result_code |-> 0,
          why |-> <<>>, aux |-> 0]

EvtNone ==
    [op |-> "none", args |-> <<>>, cur |-> NULLP, match |-> <<>>, sig |-> <<>>,
     woken |-> <<>>, term |-> <<>>, next |-> FALSE, deliv |-> <<>>, ret |-> NoRet,
     null_deref |-> FALSE]

\* a PCB in static storage before kdispinit: all fields zero
\* (state 0 is RUNNING, blocked_queue 0 is SENDER)
ZeroPcb ==
    [pid |-> 0, state |-> "RUNNING", result_code |-> 0, priority |-> 0,
     blocked_on |-> NULLP, blocked_queue |-> "SENDER",
     blocked_queues |-> [q \in BlockedQueueIds |-> <<>>],
     ipc_args |-> <<0, 0>>, key |-> 0,
     signal_table |-> [s \in Signals |-> H_NULL],
     pending_signals |-> {}, last_signal_delivered |-> 0,
     frames |-> <<>>,
     fd_table |-> [fd \in 0 .. (FD_TABLE_SIZE - 1) |-> NULLP],
     mem_start |-> 0]

(* ------------------------------------------------------------------ *)
(* disp.c: queues of the dispatcher                                     *)
(* ------------------------------------------------------------------ *)
PidOf(k, proc) == IF proc = IDLE THEN k.idle_proc.pid ELSE k.pcb_table[proc].pid

\* ready, leaving the record of the queue the process was blocked on
ready_keeps_blocked_queue(k, proc) ==
    IF PidOf(k, proc) # IDLE_PROC_PID
    THEN [k EXCEPT !.pcb_table[proc].state = "READY",
                   !.ready_queues[k.pcb_table[proc].priority] = enqueue(@, proc)]
    ELSE k

\* ready: the idle process is never put on a ready queue
ready(k, proc) ==
    IF PidOf(k, proc) # IDLE_PROC_PID
    THEN [k EXCEPT !.pcb_table[proc].blocked_on = NULLP,
                   !.pcb_table[proc].blocked_queue = "NONE",
                   !.pcb_table[proc].state = "READY",
                   !.ready_queues[k.pcb_table[proc].priority] = enqueue(@, proc)]
    ELSE k

\* the scan of next, starting at the lowest priority
RECURSIVE next_scan_lowest_first(_, _)
next_scan_lowest_first(k, i) ==
    LET j == (NUM_PRIORITIES - 1) - i IN
    IF i < NUM_PRIORITIES
    THEN IF ~is_empty(k.ready_queues[j])
         THEN LET d == dequeue(k.ready_queues[j]) IN
              [k |-> [k EXCEPT !.ready_queues[j] = d.queue], proc |-> d.proc]
         ELSE next_scan_lowest_first(k, i + 1)
    ELSE [k |-> k, proc |-> NULLP]

\* next: the while loop over the ready queues, highest priority (0) first
RECURSIVE next_scan(_, _)
next_scan(k, i) ==
    IF i < NUM_PRIORITIES
    THEN IF ~is_empty(k.ready_queues[i])
         THEN LET d == dequeue(k.ready_queues[i]) IN
              [k |-> [k EXCEPT !.ready_queues[i] = d.queue], proc |-> d.proc]
         ELSE next_scan(k, i + 1)
    ELSE [k |-> k, proc |-> NULLP]

\* next, leaving the state of the process it picked as it was
next_state_kept(k) ==
    LET s == next_scan(k, 0)
        proc == IF s.proc = NULLP THEN IDLE ELSE s.proc
    IN [k |-> [s.k EXCEPT !.evt.next = TRUE], proc |-> proc]

next(k) ==
    LET s == next_scan(k, 0)
        proc == IF s.proc = NULLP THEN IDLE ELSE s.proc
        k1 == IF proc = IDLE
              THEN [s.k EXCEPT !.idle_proc.state = "RUNNING"]
              ELSE [s.k EXCEPT !.pcb_table[proc].state = "RUNNING"]
    IN [k |-> [k1 EXCEPT !.evt.next = TRUE], proc |-> proc]

\* current_proc = next()
reschedule(k) == LET n == next(k) IN [n.k EXCEPT !.current_proc = n.proc]

stop(k, proc) ==
    [k EXCEPT !.pcb_table[proc].state = "STOPPED",
              !.stopped_queue = enqueue(@, proc),
              !.user_proc_count = @ - 1]

unblock(k, proc, result_code) ==
    ready([k EXCEPT !.pcb_table[proc].result_code = result_code], proc)

\* a kernel that never sees a lone process
only_process_never(k) == k.user_proc_count = 0

only_process(k) == k.user_proc_count = 1

enqueue_blocked_queue(k, proc, blocked_on_proc, blocked_queue) ==
    [k EXCEPT !.pcb_table[blocked_on_proc].blocked_queues[blocked_queue] = enqueue(@, proc),
              !.pcb_table[proc].blocked_on = blocked_on_proc,
              !.pcb_table[proc].blocked_queue = blocked_queue,
              !.pcb_table[proc].state = "BLOCKED"]

\* remove_from_blocked_queue, reporting the removal without doing it
remove_from_blocked_queue_kept(k, proc, blocked_on_proc, blocked_queue) ==
    IF /\ k.pcb_table[proc].blocked_on = blocked_on_proc
       /\ k.pcb_table[proc].blocked_queue = blocked_queue
    THEN [k |-> k, rc |-> 1]
    ELSE [k |-> k, rc |-> 0]

remove_from_blocked_queue(k, proc, blocked_on_proc, blocked_queue) ==
    IF /\ k.pcb_table[proc].blocked_on = blocked_on_proc
       /\ k.pcb_table[proc].blocked_queue = blocked_queue
    THEN [k |-> [k EXCEPT !.pcb_table[blocked_on_proc].blocked_queues[blocked_queue] =
                              remove(@, proc)],
          rc |-> 1]
    ELSE [k |-> k, rc |-> 0]

remove_from_receive_any_queue(k, proc) ==
    IF k.pcb_table[proc].blocked_queue = "RECEIVE_ANY"
    THEN [k |-> [k EXCEPT !.receive_any_queue = remove(@, proc)], rc |-> 1]
    ELSE [k |-> k, rc |-> 0]

\* get_pcb, looking at the slot of pid only and not at the PID stored in it
get_pcb_slot_only(k, pid) ==
    IF pid >= 1
    THEN LET proc == (pid - 1) % PCB_TABLE_SIZE IN
         IF k.pcb_table[proc].state # "STOPPED" THEN proc ELSE NULLP
    ELSE NULLP

\* get_pcb: the slot whose PCB holds pid and is not stopped, or NULL
get_pcb(k, pid) ==
    IF pid >= 1
    THEN LET proc == (pid - 1) % PCB_TABLE_SIZE IN
         IF k.pcb_table[proc].pid = pid /\ k.pcb_table[proc].state # "STOPPED"
         THEN proc ELSE NULLP
    ELSE NULLP

\* the PID a reused PCB gets (get_unused_pcb)
new_pid(prev_pid) ==
    LET sum == AddInt(prev_pid, PCB_TABLE_SIZE) IN
    IF sum < 1 THEN CRem(prev_pid, PCB_TABLE_SIZE) ELSE sum

get_unused_pcb(k) ==
    IF is_empty(k.stopped_queue) THEN [k |-> k, proc |-> NULLP]
    ELSE
      LET d == dequeue(k.stopped_queue)
          p == d.proc
          pid == new_pid(k.pcb_table[p].pid)
          signal_31 == SIGNAL_TABLE_SIZE - 1
      IN IF pid < 1
         THEN [k |-> [k EXCEPT !.panic = TRUE], proc |-> NULLP]
         ELSE [k |-> [k EXCEPT
                        !.stopped_queue = d.queue,
                        !.pcb_table[p].pid = pid,
                        !.pcb_table[p].signal_table =
                            [s \in Signals |-> IF s = signal_31 THEN H_SYSSTOP ELSE H_NULL],
                        !.pcb_table[p].pending_signals = {},
                        !.pcb_table[p].last_signal_delivered = -1,
                        !.pcb_table[p].fd_table =
                            [fd \in 0 .. (FD_TABLE_SIZE - 1) |-> NULLP]],
               proc |-> p]

(* ------------------------------------------------------------------ *)
(* mem.c                                                                *)
(* ------------------------------------------------------------------ *)
round_up_to_paragraph(to_align) ==
    ((to_align \div PARAGRAPH_SIZE)
        + (IF to_align % PARAGRAPH_SIZE # 0 THEN 1 ELSE 0)) * PARAGRAPH_SIZE
round_down_to_paragraph(to_align) == (to_align \div PARAGRAPH_SIZE) * PARAGRAPH_SIZE
on_paragraph_boundary(addr) == addr % PARAGRAPH_SIZE = 0

freemem_aligned == round_up_to_paragraph(freemem)
hole_start_aligned == round_down_to_paragraph(HOLESTART)
hole_end_aligned == round_up_to_paragraph(HOLEEND)
max_addr_aligned == round_down_to_paragraph(maxaddr)

in_free_memory_range(addr) ==
    \/ addr >= freemem_aligned /\ addr <= hole_start_aligned
    \/ addr >= hole_end_aligned /\ addr <= max_addr_aligned

\* The free list is the sequence of its blocks, each the address of its
\* header and its sz, header included; used holds the allocated blocks
\* (those whose sanity_check field points at their data).
kmeminit ==
    [free_list |-> << [addr |-> freemem_aligned,
                       size |-> hole_start_aligned - freemem_aligned],
                      [addr |-> hole_end_aligned,
                       size |-> max_addr_aligned - hole_end_aligned] >>,
     used |-> {}]

\* the index of the first free block of at least sz bytes, 0 if none
RECURSIVE first_fit(_, _, _)
first_fit(free_list, sz, i) ==
    IF i > Len(free_list) THEN 0
    ELSE IF sz <= free_list[i].size THEN i
    ELSE first_fit(free_list, sz, i + 1)

\* the list with block i cut down to sz and the rest of it linked after
split_off_free_block(free_list, sz, i) ==
    LET block == free_list[i]
        remaining_block == [addr |-> block.addr + sz, size |-> block.size - sz]
    IN SubSeq(free_list, 1, i - 1)
         \o << [block EXCEPT !.size = sz], remaining_block >>
         \o SubSeq(free_list, i + 1, Len(free_list))

\* ptr is the address of the data, 0 for NULL
kmalloc(m, req_sz) ==
    LET max_size == max_addr_aligned - freemem_aligned - HEADER_SIZE IN
    IF req_sz <= 0 \/ req_sz > max_size THEN [mem |-> m, ptr |-> 0]
    ELSE
      LET sz == round_up_to_paragraph(req_sz) + HEADER_SIZE
          i == first_fit(m.free_list, sz, 1)
      IN IF i = 0 THEN [mem |-> m, ptr |-> 0]
         ELSE
           LET fl == IF sz # m.free_list[i].size
                     THEN split_off_free_block(m.free_list, sz, i)
                     ELSE m.free_list
               mem_slot == fl[i]
           IN [mem |-> [free_list |-> SubSeq(fl, 1, i - 1) \o SubSeq(fl, i + 1, Len(fl)),
                        used |-> m.used \cup {mem_slot}],
               ptr |-> mem_slot.addr + HEADER_SIZE]

are_adjacent_blocks(free_list, l, r) ==
    /\ l >= 1 /\ r <= Len(free_list)
    /\ free_list[l].addr + free_list[l].size = free_list[r].addr

\* block l takes in block l + 1
merge_blocks(free_list, l) ==
    SubSeq(free_list, 1, l - 1)
      \o << [free_list[l] EXCEPT !.size = @ + free_list[l + 1].size] >>
      \o SubSeq(free_list, l + 2, Len(free_list))

\* the number of free blocks that lie below addr
RECURSIVE blocks_below(_, _, _)
blocks_below(free_list, addr, i) ==
    IF i > Len(free_list) \/ ~(free_list[i].addr < addr) THEN i - 1
    ELSE blocks_below(free_list, addr, i + 1)

kfree(m, ptr) ==
    LET block_to_free == ptr - HEADER_SIZE
        hit == {b \in m.used : b.addr = block_to_free}
    IN
    IF ptr = 0 THEN [mem |-> m, rc |-> 0]
    ELSE IF ~in_free_memory_range(ptr) \/ ~on_paragraph_boundary(ptr)
    THEN [mem |-> m, rc |-> 0]
    ELSE IF \/ ~in_free_memory_range(block_to_free)
            \/ ~on_paragraph_boundary(block_to_free)
            \/ hit = {}
    THEN [mem |-> m, rc |-> 0]
    ELSE
      LET b == CHOOSE x \in hit : TRUE
          n == blocks_below(m.free_list, block_to_free, 1)
          fl1 == SubSeq(m.free_list, 1, n) \o << b >>
                   \o SubSeq(m.free_list, n + 1, Len(m.free_list))
          fl2 == IF are_adjacent_blocks(fl1, n + 1, n + 2)
                 THEN merge_blocks(fl1, n + 1) ELSE fl1
          fl3 == IF are_adjacent_blocks(fl2, n, n + 1)
                 THEN merge_blocks(fl2, n) ELSE fl2
      IN [mem |-> [free_list |-> fl3, used |-> m.used \ hit], rc |-> 1]

(* ------------------------------------------------------------------ *)
(* create.c                                                             *)
(* ------------------------------------------------------------------ *)
\* create that keeps the stack when the PCB table is full
create_keep_stack(k, func_ok, stack) ==
    LET a == kmalloc(k.mem, IF stack < PROCESS_STACK_SIZE THEN PROCESS_STACK_SIZE ELSE stack)
        g == get_unused_pcb([k EXCEPT !.mem = a.mem])
        proc == g.proc
    IN IF ~func_ok \/ a.ptr = 0 THEN [k |-> k, rc |-> 0]
       ELSE IF proc = NULLP THEN [k |-> g.k, rc |-> 0]
       ELSE [k |-> [ready([g.k EXCEPT !.pcb_table[proc].mem_start = a.ptr,
                                       !.pcb_table[proc].priority = INIT_PRIORITY,
                                       !.pcb_table[proc].frames = <<>>,
                                       !.ucall[proc] = <<NoCall>>], proc)
                       EXCEPT !.user_proc_count = @ + 1, !.creates = @ + 1],
             rc |-> 1]

\* func_ok: valid_ptr(func)
create(k, func_ok, stack) ==
    IF ~func_ok THEN [k |-> k, rc |-> 0]
    ELSE
      LET stack1 == IF stack < PROCESS_STACK_SIZE THEN PROCESS_STACK_SIZE ELSE stack
          a == kmalloc(k.mem, stack1)
          proc_mem_start == a.ptr
      IN IF proc_mem_start = 0 THEN [k |-> k, rc |-> 0]
         ELSE
           LET g == get_unused_pcb([k EXCEPT !.mem = a.mem])
               proc == g.proc
           IN IF proc = NULLP
              THEN [k |-> [g.k EXCEPT !.mem = kfree(@, proc_mem_start).mem], rc |-> 0]
              ELSE
                LET k1 == [g.k EXCEPT !.pcb_table[proc].mem_start = proc_mem_start,
                                      !.pcb_table[proc].priority = INIT_PRIORITY,
                                      !.pcb_table[proc].frames = <<>>,
                                      !.umem[proc] = [from_pid |-> 0, num |-> 0, old_handler |-> H_NULL],
                                      !.ucall[proc] = <<NoCall>>]
                    k2 == ready(k1, proc)
                IN [k |-> [k2 EXCEPT !.user_proc_count = @ + 1, !.creates = @ + 1], rc |-> 1]

\* the stack of the idle process
create_idle_proc(m) == kmalloc(m, PROCESS_STACK_SIZE).mem

(* ------------------------------------------------------------------ *)
(* disp.c: process destruction                                          *)
(* ------------------------------------------------------------------ *)
\* the loop "dequeue; unblock(proc, result_code)" until the queue is empty
RECURSIVE drain(_, _, _, _)
drain(k, proc, blocked_queue, result_code) ==
    LET d == dequeue(k.pcb_table[proc].blocked_queues[blocked_queue]) IN
    IF d.proc = NULLP THEN k
    ELSE LET k1 == [k EXCEPT !.pcb_table[proc].blocked_queues[blocked_queue] = d.queue,
                             !.evt.term = Append(@, <<d.proc, blocked_queue>>)]
         IN drain(unblock(Why(k1, d.proc, "term"), d.proc, result_code),
                  proc, blocked_queue, result_code)

\* cleanup, forgetting the processes that wait to receive from proc
cleanup_senders_only(k, proc) ==
    [stop(drain(k, proc, "SENDER", -1), proc)
        EXCEPT !.mem = kfree(@, k.pcb_table[proc].mem_start).mem]

\* cleanup that wakes the waiters like the senders and receivers
cleanup_waiters_failed(k, proc) ==
    LET k1 == drain(k, proc, "SENDER", -1)
        k2 == drain(k1, proc, "RECEIVER", -1)
        k3 == drain(k2, proc, "WAIT", -1)
        k4 == stop(k3, proc)
        k5 == IF only_process(k4) /\ size(k4.receive_any_queue) = 1
              THEN LET d == dequeue(k4.receive_any_queue) IN
                   unblock(Why([k4 EXCEPT !.receive_any_queue = d.queue], d.proc, "only"),
                           d.proc, -10)
              ELSE k4
    IN [k5 EXCEPT !.mem = kfree(@, k.pcb_table[proc].mem_start).mem]

cleanup(k, proc) ==
    LET k1 == drain(k, proc, "SENDER", -1)
        k2 == drain(k1, proc, "RECEIVER", -1)
        k3 == drain(k2, proc, "WAIT", 0)
        k4 == stop(k3, proc)
        k5 == IF only_process(k4) /\ size(k4.receive_any_queue) = 1
              THEN LET d == dequeue(k4.receive_any_queue) IN
                   unblock(Why([k4 EXCEPT !.receive_any_queue = d.queue], d.proc, "only"),
                           d.proc, -10)
              ELSE k4
    IN [k5 EXCEPT !.mem = kfree(@, k.pcb_table[proc].mem_start).mem]

(* ------------------------------------------------------------------ *)
(* msg.c                                                                *)
(* ------------------------------------------------------------------ *)
\* the bytes of a 32-bit word in memory (little-endian), and back
WordBytes(w) == [i \in 0 .. (BUFFER_SIZE - 1) |-> (w \div (256 ^ i)) % 256]
BytesWord(b) == b[0] + 256 * b[1] + 65536 * b[2] + 16777216 * b[3]
\* strncpy(dst, src, n) with n = BUFFER_SIZE: bytes are copied up to and
\* including the first zero byte, the rest of dst is filled with zero bytes
strncpy(src) ==
    [i \in 0 .. (BUFFER_SIZE - 1) |->
        IF \E j \in 0 .. (i - 1) : src[j] = 0 THEN 0 ELSE src[i]]
\* what strncpy((char *) recv_buf, (char *) send_buf, BUFFER_SIZE) leaves in *recv_buf
CopyWord(w) == BytesWord(strncpy(WordBytes(w)))

\* *ptr = val for a pointer into proc's cells
Store(k, proc, ptr, val) ==
    IF ptr = PTR_FROM THEN [k EXCEPT !.umem[proc].from_pid = val]
    ELSE IF ptr = PTR_NUM THEN [k EXCEPT !.umem[proc].num = val]
    ELSE k

\* a rendezvous of send_proc and recv_proc took place; the word is the one
\* send_proc passed to syssend
Matched(k, send_proc, recv_proc) ==
    LET word == k.ucall[send_proc][Len(k.ucall[send_proc])].args[2] IN
    Why(Why([k EXCEPT !.evt.match = <<send_proc, recv_proc, word>>],
            send_proc, "match"),
        recv_proc, "match")

\* send, forgetting to make the receiver it found blocked ready
send_no_wakeup(k, send_proc, recv_proc, num) ==
    LET r1 == remove_from_blocked_queue(k, recv_proc, send_proc, "RECEIVER")
        r2 == IF r1.rc = 1 THEN r1 ELSE remove_from_receive_any_queue(k, recv_proc)
    IN IF r2.rc = 1
       THEN LET k1 == Store(r2.k, recv_proc, k.pcb_table[recv_proc].ipc_args[1],
                            k.pcb_table[send_proc].pid)
                k2 == Store(k1, recv_proc, k.pcb_table[recv_proc].ipc_args[2], CopyWord(num))
                k3 == [k2 EXCEPT !.pcb_table[recv_proc].result_code = 0]
            IN [k |-> Matched(k3, send_proc, recv_proc), rc |-> 0]
       ELSE [k |-> enqueue_blocked_queue(k, send_proc, recv_proc, "SENDER"), rc |-> -1]

send(k, send_proc, recv_proc, num) ==
    LET r1 == remove_from_blocked_queue(k, recv_proc, send_proc, "RECEIVER")
        r2 == IF r1.rc = 1 THEN r1 ELSE remove_from_receive_any_queue(k, recv_proc)
    IN IF r2.rc = 1
       THEN LET from_pid == k.pcb_table[recv_proc].ipc_args[1]
                recv_buff == k.pcb_table[recv_proc].ipc_args[2]
                k1 == Store(r2.k, recv_proc, from_pid, k.pcb_table[send_proc].pid)
                k2 == Store(k1, recv_proc, recv_buff, CopyWord(num))
                k3 == [k2 EXCEPT !.pcb_table[recv_proc].result_code = 0]
            IN [k |-> ready(Matched(k3, send_proc, recv_proc), recv_proc), rc |-> 0]
       ELSE [k |-> enqueue_blocked_queue(k, send_proc, recv_proc, "SENDER"), rc |-> -1]

\* send_proc = NULLP: receive from any process
recv(k, recv_proc, send_proc, from_pid, recv_buf) ==
    IF send_proc # NULLP
    THEN LET r == remove_from_blocked_queue(k, send_proc, recv_proc, "SENDER") IN
         IF r.rc = 1
         THEN LET num == k.pcb_table[send_proc].ipc_args[2]
                  k1 == Store(r.k, recv_proc, recv_buf, CopyWord(num))
                  k2 == [k1 EXCEPT !.pcb_table[send_proc].result_code = 0]
              IN [k |-> ready(Matched(k2, send_proc, recv_proc), send_proc), rc |-> 0]
         ELSE [k |-> enqueue_blocked_queue(k, recv_proc, send_proc, "RECEIVER"), rc |-> -1]
    ELSE LET d == dequeue(k.pcb_table[recv_proc].blocked_queues["SENDER"])
             sender == d.proc
         IN IF sender # NULLP
            THEN LET num == k.pcb_table[sender].ipc_args[2]
                     k0 == [k EXCEPT !.pcb_table[recv_proc].blocked_queues["SENDER"] = d.queue]
                     k1 == Store(k0, recv_proc, recv_buf, CopyWord(num))
                     k2 == Store(k1, recv_proc, from_pid, k.pcb_table[sender].pid)
                     k3 == [k2 EXCEPT !.pcb_table[sender].result_code = 0]
                 IN [k |-> ready(Matched(k3, sender, recv_proc), sender), rc |-> 0]
            ELSE [k |-> [k EXCEPT !.pcb_table[recv_proc].state = "BLOCKED",
                                  !.pcb_table[recv_proc].blocked_queue = "RECEIVE_ANY",
                                  !.receive_any_queue = enqueue(@, recv_proc)],
                  rc |-> -1]

(* ------------------------------------------------------------------ *)
(* deltalist.c                                                          *)
(* ------------------------------------------------------------------ *)
InsertAt(s, i, x) == SubSeq(s, 1, i - 1) \o <<x>> \o SubSeq(s, i, Len(s))
RemoveAt(s, i) == SubSeq(s, 1, i - 1) \o SubSeq(s, i + 1, Len(s))

\* insert, placing the new process in front of a sleeper due at the same tick
RECURSIVE insert_walk_before_equals(_, _, _, _)
insert_walk_before_equals(k, proc, delay, i) ==
    IF i <= Len(k.sleep_queue)
    THEN LET curr == k.sleep_queue[i] IN
         IF delay <= k.pcb_table[curr].key
         THEN [k EXCEPT !.pcb_table[proc].key = delay,
                        !.pcb_table[curr].key = @ - delay,
                        !.sleep_queue = InsertAt(@, i, proc)]
         ELSE insert_walk_before_equals(k, proc, delay - k.pcb_table[curr].key, i + 1)
    ELSE [k EXCEPT !.pcb_table[proc].key = delay,
                   !.sleep_queue = Append(@, proc)]

insert_before_equals(k, proc, delay) ==
    IF Len(k.sleep_queue) = 0
    THEN [k EXCEPT !.pcb_table[proc].key = delay, !.sleep_queue = <<proc>>]
    ELSE insert_walk_before_equals(k, proc, delay, 1)

\* insert_walk, leaving the key of the process behind the new one as it was
RECURSIVE insert_walk_keeps_next(_, _, _, _)
insert_walk_keeps_next(k, proc, delay, i) ==
    IF i <= Len(k.sleep_queue)
    THEN LET curr == k.sleep_queue[i] IN
         IF delay < k.pcb_table[curr].key
         THEN [k EXCEPT !.pcb_table[proc].key = delay,
                        !.sleep_queue = InsertAt(@, i, proc)]
         ELSE insert_walk_keeps_next(k, proc, delay - k.pcb_table[curr].key, i + 1)
    ELSE [k EXCEPT !.pcb_table[proc].key = delay,
                   !.sleep_queue = Append(@, proc)]

\* the while loop of insert: curr is sleep_queue[i] (NULL past the end)
RECURSIVE insert_walk(_, _, _, _)
insert_walk(k, proc, delay, i) ==
    IF i <= Len(k.sleep_queue)
    THEN LET curr == k.sleep_queue[i] IN
         IF delay < k.pcb_table[curr].key
         THEN [k EXCEPT !.pcb_table[proc].key = delay,
                        !.pcb_table[curr].key = @ - delay,
                        !.sleep_queue = InsertAt(@, i, proc)]
         ELSE insert_walk(k, proc, delay - k.pcb_table[curr].key, i + 1)
    ELSE [k EXCEPT !.pcb_table[proc].key = delay,
                   !.sleep_queue = Append(@, proc)]

insert(k, proc, delay) ==
    IF Len(k.sleep_queue) = 0
    THEN [k EXCEPT !.pcb_table[proc].key = delay, !.sleep_queue = <<proc>>]
    ELSE insert_walk(k, proc, delay, 1)

delta_peek(k) == IF Len(k.sleep_queue) = 0 THEN NULLP ELSE Head(k.sleep_queue)

\* poll: "proc->next->key += proc->key" is executed also when proc->next is
\* NULL; the access through the null pointer touches no kernel data structure
poll(k) ==
    IF Len(k.sleep_queue) = 0 THEN [k |-> k, proc |-> NULLP]
    ELSE LET proc == Head(k.sleep_queue)
             rest == Tail(k.sleep_queue)
         IN IF Len(rest) > 0
            THEN [k |-> [k EXCEPT !.sleep_queue = rest,
                                  !.pcb_table[Head(rest)].key = @ + k.pcb_table[proc].key],
                  proc |-> proc]
            ELSE [k |-> [k EXCEPT !.sleep_queue = rest, !.evt.null_deref = TRUE],
                  proc |-> proc]

\* delta_remove_walk, returning the key of proc alone
RECURSIVE delta_remove_walk_own_key(_, _, _, _)
delta_remove_walk_own_key(k, proc, i, acc) ==
    IF i <= Len(k.sleep_queue)
    THEN LET curr == k.sleep_queue[i] IN
         IF curr = proc
         THEN LET k1 == [k EXCEPT !.sleep_queue = RemoveAt(@, i)]
                  k2 == IF i < Len(k.sleep_queue)
                        THEN [k1 EXCEPT !.pcb_table[k.sleep_queue[i + 1]].key =
                                            @ + k.pcb_table[curr].key]
                        ELSE k1
              IN [k |-> k2, rc |-> k.pcb_table[proc].key]
         ELSE delta_remove_walk_own_key(k, proc, i + 1, acc)
    ELSE [k |-> [k EXCEPT !.panic = TRUE], rc |-> 0]

\* the while loop of delta_remove: curr is sleep_queue[i], acc the sum of the
\* keys before it
RECURSIVE delta_remove_walk(_, _, _, _)
delta_remove_walk(k, proc, i, acc) ==
    IF i <= Len(k.sleep_queue)
    THEN LET curr == k.sleep_queue[i] IN
         IF curr = proc
         THEN LET k1 == [k EXCEPT !.sleep_queue = RemoveAt(@, i)]
                  k2 == IF i < Len(k.sleep_queue)
                        THEN [k1 EXCEPT !.pcb_table[k.sleep_queue[i + 1]].key =
                                            @ + k.pcb_table[curr].key]
                        ELSE k1
              IN [k |-> k2, rc |-> acc + k.pcb_table[proc].key]
         ELSE delta_remove_walk(k, proc, i + 1, acc + k.pcb_table[curr].key)
    ELSE [k |-> [k EXCEPT !.panic = TRUE], rc |-> 0]

delta_remove(k, proc) ==
    IF Len(k.sleep_queue) = 0 THEN [k |-> [k EXCEPT !.panic = TRUE], rc |-> 0]
    ELSE IF Head(k.sleep_queue) = proc
    THEN [k |-> poll(k).k, rc |-> k.pcb_table[proc].key]
    ELSE delta_remove_walk(k, proc, 2, k.pcb_table[Head(k.sleep_queue)].key)

(* ------------------------------------------------------------------ *)
(* sleep.c                                                              *)
(* ------------------------------------------------------------------ *)
ms_to_time_slices(milliseconds) ==
    (milliseconds \div TIME_SLICE) + (IF milliseconds % TIME_SLICE # 0 THEN 1 ELSE 0)

sleep(k, proc, milliseconds) ==
    LET time_slices_to_sleep == ms_to_time_slices(milliseconds)
        k1 == insert(k, proc, time_slices_to_sleep)
    IN [k1 EXCEPT !.pcb_table[proc].state = "BLOCKED",
                  !.pcb_table[proc].blocked_queue = "SLEEP"]

\* the while loop of tick: wake the head while its key is <= 0
RECURSIVE tick_wake(_)
tick_wake(k) ==
    LET proc == delta_peek(k) IN
    IF proc # NULLP /\ k.pcb_table[proc].key <= 0
    THEN LET p == poll(k)
             k1 == [p.k EXCEPT !.pcb_table[p.proc].result_code = 0,
                               !.evt.woken = Append(@, <<p.proc, k.wake_left[p.proc]>>)]
         IN tick_wake(ready(Why(k1, p.proc, "tick"), p.proc))
    ELSE k

tick(k) ==
    LET proc == delta_peek(k) IN
    IF proc # NULLP
    THEN tick_wake([k EXCEPT !.pcb_table[proc].key = @ - 1])
    ELSE k


(* ------------------------------------------------------------------ *)
(* kbd.c: the keyboard driver                                           *)
(* ------------------------------------------------------------------ *)
\* The driver's variables after kdiinit. The keyboard controller and its
\* interrupt line are off until kbdopen. The last three fields record what
\* the driver has done: the characters it accepted into the ring buffer
\* that no read has returned yet (EOF characters left out), the highest
\* index of the read buffer written and the number of characters stored
\* since the last sysread was issued, the number of keyboard interrupts
\* so far, and whether kbdclose has run.
KbdBoot ==
    [kbd_buf |-> [i \in 0 .. (KBD_BUFFER_SIZE - 1) |-> 0],
     kbd_buf_head |-> 0, kbd_buf_tail |-> 0,
     read_buf |-> NULLP, read_buflen |-> 0, chars_transferred |-> 0,
     read_finished |-> 0,
     eof |-> DEFAULT_EOF, eof_flag |-> 0, echo_flag |-> 0, kbd_proc |-> NULLP,
     enabled |-> FALSE,
     typed |-> <<>>, hi |-> -1, got |-> 0, keys |-> 0,
     released |-> FALSE]

flush_kbd_buf(k) ==
    [k EXCEPT !.kbd.kbd_buf = [i \in 0 .. (KBD_BUFFER_SIZE - 1) |-> 0],
              !.kbd.kbd_buf_head = 0,
              !.kbd.kbd_buf_tail = 0]

kbd_reset(k) ==
    [flush_kbd_buf(k) EXCEPT
        !.kbd.read_buf = NULLP, !.kbd.read_buflen = 0,
        !.kbd.chars_transferred = 0, !.kbd.read_finished = 0,
        !.kbd.eof = DEFAULT_EOF, !.kbd.eof_flag = 0,
        !.kbd.typed = <<>>, !.kbd.hi = -1, !.kbd.got = 0]

disable_keyboard_hardware(k) == [k EXCEPT !.kbd.enabled = FALSE]

\* a driver that lets every opener in
kbdopen_shared(k, proc, device_no) ==
    [k |-> [kbd_reset(k) EXCEPT
               !.kbd.echo_flag = IF device_no = 0 THEN 0 ELSE 1,
               !.kbd.kbd_proc = proc,
               !.kbd.enabled = TRUE],
     rc |-> 0]

kbdopen(k, proc, device_no) ==
    IF k.kbd.kbd_proc # NULLP THEN [k |-> k, rc |-> -1]
    ELSE [k |-> [kbd_reset(k) EXCEPT
                    !.kbd.echo_flag = IF device_no = 0 THEN 0 ELSE 1,
                    !.kbd.kbd_proc = proc,
                    !.kbd.enabled = TRUE],
          rc |-> 0]

kbdclose(k, proc) ==
    [k |-> disable_keyboard_hardware(
              [kbd_reset(k) EXCEPT !.kbd.echo_flag = 0, !.kbd.kbd_proc = NULLP,
                                   !.kbd.released = TRUE]),
     rc |-> 0]

is_kbd_buf_full(k) ==
    ((k.kbd.kbd_buf_head + 1) % KBD_BUFFER_SIZE) = k.kbd.kbd_buf_tail

\* write_to_kbd_buf without the test for a full buffer
write_to_kbd_buf_over(k, c) ==
    [k EXCEPT !.kbd.kbd_buf[k.kbd.kbd_buf_head] = c,
              !.kbd.kbd_buf_head = (@ + 1) % KBD_BUFFER_SIZE,
              !.kbd.typed = IF c # k.kbd.eof THEN Append(@, c) ELSE @]

write_to_kbd_buf(k, c) ==
    IF ~is_kbd_buf_full(k)
    THEN [k EXCEPT !.kbd.kbd_buf[k.kbd.kbd_buf_head] = c,
                   !.kbd.kbd_buf_head = (@ + 1) % KBD_BUFFER_SIZE,
                   !.kbd.typed = IF c # k.kbd.eof THEN Append(@, c) ELSE @]
    ELSE k

\* read_buf[chars_transferred] = c: read_buf is the read buffer of a
\* process, of which MemLen cells are followed
copy_char_to_read_buf(k, c) ==
    LET i == k.kbd.chars_transferred
        k1 == IF i < MemLen THEN [k EXCEPT !.ubuf[k.kbd.read_buf][i] = c] ELSE k
        k2 == [k1 EXCEPT !.kbd.chars_transferred = i + 1,
                         !.kbd.hi = IF i > @ THEN i ELSE @,
                         !.kbd.got = @ + 1]
    IN [k |-> k2,
        rc |-> IF k2.kbd.chars_transferred = k2.kbd.read_buflen \/ c = NEWLINE
               THEN 1 ELSE 0]

handle_eof(k) == [disable_keyboard_hardware(k) EXCEPT !.kbd.eof_flag = 1]

RECURSIVE transfer_loop(_)
transfer_loop(k) ==
    IF k.kbd.kbd_buf_tail # k.kbd.kbd_buf_head
    THEN LET c == k.kbd.kbd_buf[k.kbd.kbd_buf_tail]
             k1 == [k EXCEPT !.kbd.kbd_buf_tail = (@ + 1) % KBD_BUFFER_SIZE]
         IN IF c = k1.kbd.eof THEN [k |-> handle_eof(k1), rc |-> 1]
            ELSE LET r == copy_char_to_read_buf(k1, c) IN
                 IF r.rc = 1 THEN r ELSE transfer_loop(r.k)
    ELSE [k |-> k, rc |-> 0]

transfer_to_read_buf(k) ==
    IF k.kbd.kbd_proc = NULLP \/ k.kbd.read_buf = NULLP
    THEN [k |-> [k EXCEPT !.panic = TRUE], rc |-> 0]
    ELSE transfer_loop(k)

\* kbdread without the test of the EOF flag
kbdread_past_eof(k, proc, buf, buflen) ==
    LET k1 == [k EXCEPT !.kbd.read_buf = buf, !.kbd.read_buflen = buflen,
                        !.kbd.hi = -1, !.kbd.got = 0]
        k2 == transfer_to_read_buf(k1).k
    IN IF k2.kbd.chars_transferred = k2.kbd.read_buflen
       THEN [k |-> k2, rc |-> k2.kbd.read_buflen]
       ELSE [k |-> [k2 EXCEPT !.kbd.read_finished = 0], rc |-> -2]

\* buf is the caller's read buffer
kbdread(k, proc, buf, buflen) ==
    IF k.kbd.eof_flag # 0 THEN [k |-> k, rc |-> 0]
    ELSE LET k1 == [k EXCEPT !.kbd.read_buf = buf, !.kbd.read_buflen = buflen,
                             !.kbd.hi = -1, !.kbd.got = 0]
             k2 == transfer_to_read_buf(k1).k
         IN IF k2.kbd.chars_transferred = k2.kbd.read_buflen
            THEN [k |-> k2, rc |-> k2.kbd.read_buflen]
            ELSE [k |-> [k2 EXCEPT !.kbd.read_finished = 0], rc |-> -2]

\* ioctl_args: NULLP for a null argument list, else its first int
kbdioctl_change_eof(k, ioctl_args) ==
    IF ioctl_args = NULLP THEN [k |-> k, rc |-> -1]
    ELSE IF ioctl_args > 0 /\ ioctl_args <= 127
         THEN [k |-> [k EXCEPT !.kbd.eof = ioctl_args], rc |-> 0]
         ELSE [k |-> k, rc |-> -1]

kbdioctl(k, proc, command, ioctl_args) ==
    CASE command = IOCTL_CHANGE_EOF -> kbdioctl_change_eof(k, ioctl_args)
      [] command = IOCTL_ECHO_OFF -> [k |-> [k EXCEPT !.kbd.echo_flag = 0], rc |-> 0]
      [] command = IOCTL_ECHO_ON -> [k |-> [k EXCEPT !.kbd.echo_flag = 1], rc |-> 0]
      [] OTHER -> [k |-> k, rc |-> -1]

finish_read(k) ==
    LET p == k.kbd.kbd_proc
        k1 == Why([k EXCEPT !.pcb_table[p].result_code = k.kbd.chars_transferred,
                            !.kbd.chars_transferred = 0,
                            !.evt.woken = Append(@, <<p, 0>>)],
                  p, "kbd")
    IN ready(k1, p)

\* c is what kbtoa made of the scan code read from the data port
kbd_isr(k, c) ==
    IF k.kbd.kbd_proc = NULLP THEN [k EXCEPT !.panic = TRUE]
    ELSE IF c > 0 /\ c <= 127
         THEN LET k1 == write_to_kbd_buf(k, c) IN
              IF k1.kbd.read_buf # NULLP /\ k1.kbd.read_finished = 0
              THEN LET t == transfer_to_read_buf(k1)
                       k2 == [t.k EXCEPT !.kbd.read_finished = t.rc]
                   IN IF t.rc # 0
                         /\ k2.pcb_table[k2.kbd.kbd_proc].blocked_queue = "READ"
                      THEN finish_read(k2)
                      ELSE k2
              ELSE k1
         ELSE k

(* ------------------------------------------------------------------ *)
(* di_calls.c                                                           *)
(* ------------------------------------------------------------------ *)
is_valid_fd(k, proc, fd) ==
    fd >= 0 /\ fd < FD_TABLE_SIZE /\ k.pcb_table[proc].fd_table[fd] # NULLP

\* the first free entry of the fd table, FD_TABLE_SIZE if there is none
RECURSIVE free_fd(_, _, _)
free_fd(k, proc, fd) ==
    IF fd < FD_TABLE_SIZE /\ k.pcb_table[proc].fd_table[fd] # NULLP
    THEN free_fd(k, proc, fd + 1)
    ELSE fd

\* an open that takes the last entry of the fd table
di_open_last_fd(k, proc, device_no) ==
    IF device_no >= 0 /\ device_no < DEVICE_TABLE_SIZE
    THEN LET fd == FD_TABLE_SIZE - 1 IN
         IF k.pcb_table[proc].fd_table[fd] # NULLP THEN [k |-> k, rc |-> -1]
         ELSE LET o == kbdopen(k, proc, device_no) IN
              IF o.rc # 0 THEN [k |-> o.k, rc |-> -1]
              ELSE [k |-> [o.k EXCEPT !.pcb_table[proc].fd_table[fd] = device_no],
                    rc |-> fd]
    ELSE [k |-> k, rc |-> -1]

\* an fd table entry points at dev_table[device_no]
di_open(k, proc, device_no) ==
    IF device_no >= 0 /\ device_no < DEVICE_TABLE_SIZE
    THEN LET fd == free_fd(k, proc, 0) IN
         IF fd = FD_TABLE_SIZE THEN [k |-> k, rc |-> -1]
         ELSE LET o == kbdopen(k, proc, device_no) IN
              IF o.rc # 0 THEN [k |-> o.k, rc |-> -1]
              ELSE [k |-> [o.k EXCEPT !.pcb_table[proc].fd_table[fd] = device_no],
                    rc |-> fd]
    ELSE [k |-> k, rc |-> -1]

di_close(k, proc, fd) ==
    IF is_valid_fd(k, proc, fd)
    THEN LET c == kbdclose(k, proc) IN
         IF c.rc # 0 THEN [k |-> c.k, rc |-> -1]
         ELSE [k |-> [c.k EXCEPT !.pcb_table[proc].fd_table[fd] = NULLP], rc |-> 0]
    ELSE [k |-> k, rc |-> -1]

\* buf_ok: the buffer lies in user memory (valid_buf also wants buflen > 0)
di_read(k, proc, fd, buf, buf_ok, buflen) ==
    IF buf_ok /\ buflen > 0 /\ is_valid_fd(k, proc, fd)
    THEN kbdread(k, proc, buf, buflen)
    ELSE [k |-> k, rc |-> -1]

\* writes are not supported to the keyboard
kbdwrite(k, proc, buflen) == [k |-> k, rc |-> -1]

di_write(k, proc, fd, buf_ok, buflen) ==
    IF buf_ok /\ buflen > 0 /\ is_valid_fd(k, proc, fd)
    THEN kbdwrite(k, proc, buflen)
    ELSE [k |-> k, rc |-> -1]

di_ioctl(k, proc, fd, command, ioctl_args) ==
    IF is_valid_fd(k, proc, fd)
    THEN kbdioctl(k, proc, command, ioctl_args)
    ELSE [k |-> k, rc |-> -1]

(* ------------------------------------------------------------------ *)
(* signal.c                                                             *)
(* ------------------------------------------------------------------ *)
\* a signal ends the system call in progress in the top context of proc
MarkInterrupted(k, proc, left) ==
    Why([k EXCEPT !.ucall[proc][Len(k.ucall[proc])].aux = left], proc, "signal")

\* how far the blocked call of proc has got: the characters stored for a
\* read, the timer ticks left of a sleep
Progress(k, proc) ==
    IF k.pcb_table[proc].blocked_queue = "READ" THEN k.kbd.got ELSE k.wake_left[proc]

\* unblock_on_signal, leaving the process on the queue it was blocked on
unblock_on_signal_keeps_queued(k, proc_to_signal) ==
    LET p == k.pcb_table[proc_to_signal]
        k0 == [k EXCEPT !.evt.sig = <<proc_to_signal, p.blocked_queue,
                                      Progress(k, proc_to_signal)>>]
        k1 == MarkInterrupted(k0, proc_to_signal, Progress(k, proc_to_signal))
    IN [k1 EXCEPT !.pcb_table[proc_to_signal].result_code = -666,
                  !.pcb_table[proc_to_signal].blocked_on = NULLP,
                  !.pcb_table[proc_to_signal].blocked_queue = "NONE"]

unblock_on_signal(k, proc_to_signal) ==
    LET p == k.pcb_table[proc_to_signal]
        interrupted_by_signal == -666
        k0 == [k EXCEPT !.evt.sig = <<proc_to_signal, p.blocked_queue,
                                      Progress(k, proc_to_signal)>>]
        k1 == MarkInterrupted(k0, proc_to_signal, Progress(k, proc_to_signal))
        k2 ==
          CASE p.blocked_queue \in {"SENDER", "RECEIVER", "WAIT"} ->
                 [remove_from_blocked_queue(k1, proc_to_signal, p.blocked_on,
                                            p.blocked_queue).k
                    EXCEPT !.pcb_table[proc_to_signal].result_code = interrupted_by_signal]
            [] p.blocked_queue = "RECEIVE_ANY" ->
                 [remove_from_receive_any_queue(k1, proc_to_signal).k
                    EXCEPT !.pcb_table[proc_to_signal].result_code = interrupted_by_signal]
            [] p.blocked_queue = "SLEEP" ->
                 LET r == delta_remove(k1, proc_to_signal) IN
                 [r.k EXCEPT !.pcb_table[proc_to_signal].result_code = r.rc * TIME_SLICE]
            [] p.blocked_queue = "READ" ->
                 [k1 EXCEPT !.pcb_table[proc_to_signal].result_code =
                               IF k1.kbd.chars_transferred = 0
                               THEN interrupted_by_signal
                               ELSE k1.kbd.chars_transferred]
            [] OTHER -> [k1 EXCEPT !.panic = TRUE]
    IN [k2 EXCEPT !.pcb_table[proc_to_signal].blocked_on = NULLP,
                  !.pcb_table[proc_to_signal].blocked_queue = "NONE"]

\* signal, posting the signal whatever the handler table holds
signal_whatever_handler(k, proc_to_signal, signal_number) ==
    IF proc_to_signal # NULLP
    THEN IF signal_number >= 0 /\ signal_number < SIGNAL_TABLE_SIZE
         THEN LET k1 == [k EXCEPT !.pcb_table[proc_to_signal].pending_signals =
                                      @ \cup {signal_number}]
              IN IF k1.pcb_table[proc_to_signal].state = "BLOCKED"
                 THEN [k |-> ready(unblock_on_signal(k1, proc_to_signal),
                                   proc_to_signal),
                       rc |-> 0]
                 ELSE [k |-> k1, rc |-> 0]
         ELSE [k |-> k, rc |-> -583]
    ELSE [k |-> k, rc |-> -514]

signal(k, proc_to_signal, signal_number) ==
    IF proc_to_signal # NULLP
    THEN IF signal_number >= 0 /\ signal_number < SIGNAL_TABLE_SIZE
         THEN IF k.pcb_table[proc_to_signal].signal_table[signal_number] # H_NULL
              THEN LET k1 == [k EXCEPT !.pcb_table[proc_to_signal].pending_signals =
                                           @ \cup {signal_number}]
                   IN IF k1.pcb_table[proc_to_signal].state = "BLOCKED"
                      THEN [k |-> ready(unblock_on_signal(k1, proc_to_signal),
                                        proc_to_signal),
                            rc |-> 0]
                      ELSE [k |-> k1, rc |-> 0]
              ELSE [k |-> k, rc |-> 0]
         ELSE [k |-> k, rc |-> -583]
    ELSE [k |-> k, rc |-> -514]

\* the scan of handle_pending_signals: the highest set bit at or below
\* signal_number, -1 if there is none
RECURSIVE highest_pending(_, _)
highest_pending(pending_signals, signal_number) ==
    IF signal_number # -1 /\ signal_number \notin pending_signals
    THEN highest_pending(pending_signals, signal_number - 1)
    ELSE signal_number

\* handle_pending_signals, delivering the highest pending signal whatever
\* handler is running
handle_pending_signals_any(k, proc) ==
    IF proc = IDLE THEN k
    ELSE
      LET p == k.pcb_table[proc]
          signal_number == highest_pending(p.pending_signals, SIGNAL_TABLE_SIZE - 1)
      IN IF signal_number # -1
         THEN [k EXCEPT
                 !.pcb_table[proc].pending_signals = @ \ {signal_number},
                 !.pcb_table[proc].frames =
                     Append(@, [handler |-> p.signal_table[signal_number],
                                last_signal_delivered |-> p.last_signal_delivered,
                                saved_result_code |-> p.result_code]),
                 !.pcb_table[proc].last_signal_delivered = signal_number,
                 !.ucall[proc] = Append(@, NoCall),
                 !.evt.deliv = <<proc, signal_number, p.last_signal_delivered>>]
         ELSE k

\* a spliced signal_delivery_context is a frame on the process's stack;
\* the trampoline starts a new user context with no system call in progress
handle_pending_signals(k, proc) ==
    IF proc = IDLE THEN k
    ELSE
      LET p == k.pcb_table[proc]
          signal_number == highest_pending(p.pending_signals, SIGNAL_TABLE_SIZE - 1)
      IN IF signal_number # -1 /\ signal_number > p.last_signal_delivered
         THEN [k EXCEPT
                 !.pcb_table[proc].pending_signals = @ \ {signal_number},
                 !.pcb_table[proc].frames =
                     Append(@, [handler |-> p.signal_table[signal_number],
                                last_signal_delivered |-> p.last_signal_delivered,
                                saved_result_code |-> p.result_code]),
                 !.pcb_table[proc].last_signal_delivered = signal_number,
                 !.ucall[proc] = Append(@, NoCall),
                 !.evt.deliv = <<proc, signal_number, p.last_signal_delivered>>]
         ELSE k

(* ------------------------------------------------------------------ *)
(* disp.c: the service routines                                         *)
(* ------------------------------------------------------------------ *)
SetResult(k, result_code) ==
    [k EXCEPT !.pcb_table[k.current_proc].result_code = result_code]

yield(k) == reschedule(ready(k, k.current_proc))

service_syscreate(k, func_ok, stack) ==
    LET c == create(k, func_ok, stack) IN
    IF c.rc = 1
    THEN LET created_proc == peek_tail(c.k.ready_queues[INIT_PRIORITY]) IN
         SetResult(c.k, c.k.pcb_table[created_proc].pid)
    ELSE SetResult(c.k, -1)

\* sysgetcputimes: the structure at ps is followed word by word, as the
\* offsets from ps of the words written and their values.  Word 0 is
\* entries; the arrays pid, state, blocked_queue and cpuTime follow, each
\* of PCB_TABLE_SIZE words.  CPU times are not followed: their words get 0.
ps_words == 1 + 4 * PCB_TABLE_SIZE
ps_cell(field, i) == 1 + field * PCB_TABLE_SIZE + i
state_code(state) ==
    CASE state = "RUNNING" -> 0 [] state = "READY" -> 1
      [] state = "BLOCKED" -> 2 [] state = "STOPPED" -> 3
blocked_queue_code(blocked_queue) ==
    CASE blocked_queue = "SENDER" -> 0 [] blocked_queue = "RECEIVER" -> 1
      [] blocked_queue = "WAIT" -> 2 [] blocked_queue = "RECEIVE_ANY" -> 3
      [] blocked_queue = "SLEEP" -> 4 [] blocked_queue = "READ" -> 5
      [] blocked_queue = "NONE" -> 6

\* the loop over the PCB table from slot i on, then the entry of the idle
\* process; a later write to a word replaces an earlier one
RECURSIVE fill_cpu_times(_, _, _, _)
fill_cpu_times(k, i, currentSlot, words) ==
    IF i = PCB_TABLE_SIZE
    THEN [words |-> (ps_cell(3, currentSlot + 1) :> 0)
                      @@ (ps_cell(1, currentSlot + 1) :> state_code("READY"))
                      @@ (ps_cell(0, currentSlot + 1) :> 0) @@ words,
          currentSlot |-> currentSlot + 1]
    ELSE IF k.pcb_table[i].state # "STOPPED"
    THEN LET p == k.pcb_table[i]
             slot == currentSlot + 1
         IN fill_cpu_times(k, i + 1, slot,
                (ps_cell(3, slot) :> 0)
                  @@ (ps_cell(2, slot) :> blocked_queue_code(p.blocked_queue))
                  @@ (ps_cell(1, slot) :>
                        IF k.pcb_table[k.current_proc].pid = p.pid
                        THEN state_code("RUNNING") ELSE state_code(p.state))
                  @@ (ps_cell(0, slot) :> p.pid) @@ words)
    ELSE fill_cpu_times(k, i + 1, currentSlot, words)

\* ps_addr is the address passed
get_cpu_times(k, ps_addr) ==
    IF ps_addr >= HOLESTART /\ ps_addr <= HOLEEND THEN [k |-> k, rc |-> -1]
    ELSE IF ps_addr + 4 * ps_words > maxaddr THEN [k |-> k, rc |-> -2]
    ELSE LET f == fill_cpu_times(k, 0, -1, <<>>) IN
         [k |-> [k EXCEPT !.ps = f.words], rc |-> f.currentSlot]

service_sysgetcputimes(k, ps_addr) ==
    LET r == get_cpu_times(k, ps_addr) IN SetResult(r.k, r.rc)

service_syskill(k, pid, signal_number) ==
    LET r == signal(k, get_pcb(k, pid), signal_number) IN
    SetResult(r.k, r.rc)

\* a syssetprio without the query: -1 is refused like any other bad priority
service_syssetprio_no_query(k, req_priority) ==
    LET current_priority == k.pcb_table[k.current_proc].priority
        valid_req_priority == req_priority >= 0 /\ req_priority <= 3
        k1 == IF valid_req_priority
              THEN [k EXCEPT !.pcb_table[k.current_proc].priority = req_priority]
              ELSE k
    IN IF valid_req_priority
       THEN SetResult(k1, current_priority)
       ELSE SetResult(k1, -1)

service_syssetprio(k, req_priority) ==
    LET current_priority == k.pcb_table[k.current_proc].priority
        valid_req_priority == req_priority >= 0 /\ req_priority <= 3
        k1 == IF valid_req_priority
              THEN [k EXCEPT !.pcb_table[k.current_proc].priority = req_priority]
              ELSE k
    IN IF valid_req_priority \/ req_priority = -1
       THEN SetResult(k1, current_priority)
       ELSE SetResult(k1, -1)

service_syssend(k, dest_pid, num) ==
    LET cur == k.current_proc
        k0 == [k EXCEPT !.pcb_table[cur].ipc_args = <<dest_pid, num>>]
        r == IF k0.pcb_table[cur].pid = dest_pid THEN [k |-> k0, rc |-> -3]
             ELSE LET receiving_proc == get_pcb(k0, dest_pid) IN
                  IF receiving_proc = NULLP THEN [k |-> k0, rc |-> -2]
                  ELSE send(k0, cur, receiving_proc, num)
        k1 == SetResult(r.k, r.rc)
    IN IF r.rc = -1 THEN reschedule(k1) ELSE k1

\* from_ok, num_ok: valid_buf() of the two pointers
\* a receive that looks at the buffer pointer first
service_sysrecv_buffer_first(k, from_ok, num_ok) ==
    LET cur == k.current_proc
        k0 == [k EXCEPT !.pcb_table[cur].ipc_args = <<PTR_FROM, PTR_NUM>>]
        sender_pid == k0.umem[cur].from_pid
        r == IF ~num_ok THEN [k |-> k0, rc |-> -4]
             ELSE IF ~from_ok THEN [k |-> k0, rc |-> -5]
             ELSE IF sender_pid = 0
                  THEN IF only_process(k0) THEN [k |-> k0, rc |-> -10]
                       ELSE recv(k0, cur, NULLP, PTR_FROM, PTR_NUM)
             ELSE IF k0.pcb_table[cur].pid = sender_pid THEN [k |-> k0, rc |-> -3]
             ELSE LET sending_proc == get_pcb(k0, sender_pid) IN
                  IF sending_proc = NULLP THEN [k |-> k0, rc |-> -2]
                  ELSE recv(k0, cur, sending_proc, PTR_FROM, PTR_NUM)
        k1 == SetResult(r.k, r.rc)
    IN IF r.rc = -1 THEN reschedule(k1) ELSE k1

service_sysrecv(k, from_ok, num_ok) ==
    LET cur == k.current_proc
        k0 == [k EXCEPT !.pcb_table[cur].ipc_args = <<PTR_FROM, PTR_NUM>>]
        sender_pid == k0.umem[cur].from_pid
        r == IF ~from_ok THEN [k |-> k0, rc |-> -5]
             ELSE IF ~num_ok THEN [k |-> k0, rc |-> -4]
             ELSE IF sender_pid = 0
                  THEN IF only_process(k0) THEN [k |-> k0, rc |-> -10]
                       ELSE recv(k0, cur, NULLP, PTR_FROM, PTR_NUM)
             ELSE IF k0.pcb_table[cur].pid = sender_pid THEN [k |-> k0, rc |-> -3]
             ELSE LET sending_proc == get_pcb(k0, sender_pid) IN
                  IF sending_proc = NULLP THEN [k |-> k0, rc |-> -2]
                  ELSE recv(k0, cur, sending_proc, PTR_FROM, PTR_NUM)
        k1 == SetResult(r.k, r.rc)
    IN IF r.rc = -1 THEN reschedule(k1) ELSE k1

service_syssleep(k, milliseconds) ==
    IF milliseconds > 0
    THEN reschedule(sleep(k, k.current_proc, milliseconds))
    ELSE k

\* syssighandler accepting every signal of the table
service_syssighandler_any_signal(k, sig, new_handler, new_ok, old_ok) ==
    LET cur == k.current_proc
    IN IF sig < 0 \/ sig >= SIGNAL_TABLE_SIZE THEN SetResult(k, -1)
       ELSE IF new_handler # H_NULL /\ ~new_ok THEN SetResult(k, -2)
       ELSE IF ~old_ok THEN SetResult(k, -3)
       ELSE SetResult([k EXCEPT !.umem[cur].old_handler = k.pcb_table[cur].signal_table[sig],
                                !.pcb_table[cur].signal_table[sig] = new_handler],
                      0)

\* a syssighandler that installs the handler without reporting the old one
service_syssighandler_old_unset(k, sig, new_handler, new_ok, old_ok) ==
    LET cur == k.current_proc
        signal_31 == SIGNAL_TABLE_SIZE - 1
    IN IF sig < 0 \/ sig >= signal_31 THEN SetResult(k, -1)
       ELSE IF new_handler # H_NULL /\ ~new_ok THEN SetResult(k, -2)
       ELSE IF ~old_ok THEN SetResult(k, -3)
       ELSE SetResult([k EXCEPT !.pcb_table[cur].signal_table[sig] = new_handler], 0)

\* new_ok, old_ok: valid_ptr() of new_handler and of old_handler
service_syssighandler(k, sig, new_handler, new_ok, old_ok) ==
    LET cur == k.current_proc
        signal_31 == SIGNAL_TABLE_SIZE - 1
    IN IF sig < 0 \/ sig >= signal_31 THEN SetResult(k, -1)
       ELSE IF new_handler # H_NULL /\ ~new_ok THEN SetResult(k, -2)
       ELSE IF ~old_ok THEN SetResult(k, -3)
       ELSE SetResult([k EXCEPT !.umem[cur].old_handler = k.pcb_table[cur].signal_table[sig],
                                !.pcb_table[cur].signal_table[sig] = new_handler],
                      0)

\* a syssigreturn that leaves the signal processing level where it was
service_syssigreturn_level_kept(k) ==
    LET cur == k.current_proc
        fr == k.pcb_table[cur].frames
        top == fr[Len(fr)]
    IN [k EXCEPT !.pcb_table[cur].frames = SubSeq(fr, 1, Len(fr) - 1),
                 !.pcb_table[cur].result_code = top.saved_result_code,
                 !.ucall[cur] = SubSeq(@, 1, Len(@) - 1)]

\* a syssigreturn that leaves in result_code what the handler's last call put
\* there
service_syssigreturn_result_kept(k) ==
    LET cur == k.current_proc
        fr == k.pcb_table[cur].frames
        top == fr[Len(fr)]
    IN [k EXCEPT !.pcb_table[cur].frames = SubSeq(fr, 1, Len(fr) - 1),
                 !.pcb_table[cur].last_signal_delivered = top.last_signal_delivered,
                 !.ucall[cur] = SubSeq(@, 1, Len(@) - 1)]

\* old_sp is the cntx the trampoline was given: the frame on top of the stack
\* is dropped, result_code and last_signal_delivered are read back from it
service_syssigreturn(k) ==
    LET cur == k.current_proc
        fr == k.pcb_table[cur].frames
        top == fr[Len(fr)]
    IN [k EXCEPT !.pcb_table[cur].frames = SubSeq(fr, 1, Len(fr) - 1),
                 !.pcb_table[cur].result_code = top.saved_result_code,
                 !.pcb_table[cur].last_signal_delivered = top.last_signal_delivered,
                 !.ucall[cur] = SubSeq(@, 1, Len(@) - 1)]

\* a wait that lets a process wait on itself
service_syswait_self(k, pid) ==
    LET cur == k.current_proc
        proc_to_wait_on == get_pcb(k, pid)
    IN IF proc_to_wait_on # NULLP
       THEN reschedule(enqueue_blocked_queue(
                [k EXCEPT !.pcb_table[cur].state = "BLOCKED"], cur, proc_to_wait_on, "WAIT"))
       ELSE SetResult(k, -1)

service_syswait(k, pid) ==
    LET cur == k.current_proc
        proc_to_wait_on == get_pcb(k, pid)
    IN IF proc_to_wait_on # NULLP /\ pid # k.pcb_table[cur].pid
       THEN reschedule(enqueue_blocked_queue(
                [k EXCEPT !.pcb_table[cur].state = "BLOCKED"], cur, proc_to_wait_on, "WAIT"))
       ELSE SetResult(k, -1)

service_sysopen(k, device_no) ==
    LET r == di_open(k, k.current_proc, device_no) IN SetResult(r.k, r.rc)

service_sysclose(k, fd) ==
    LET r == di_close(k, k.current_proc, fd) IN SetResult(r.k, r.rc)

service_sysread(k, fd, buf, buf_ok, buflen) ==
    LET cur == k.current_proc
        r == di_read(k, cur, fd, buf, buf_ok, buflen)
    IN IF r.rc = -2
       THEN reschedule([r.k EXCEPT !.pcb_table[cur].state = "BLOCKED",
                                   !.pcb_table[cur].blocked_queue = "READ"])
       ELSE SetResult(r.k, r.rc)

service_syswrite(k, fd, buf_ok, buflen) ==
    LET r == di_write(k, k.current_proc, fd, buf_ok, buflen) IN
    SetResult(r.k, r.rc)

service_sysioctl(k, fd, command, ioctl_args) ==
    LET r == di_ioctl(k, k.current_proc, fd, command, ioctl_args) IN
    SetResult(r.k, r.rc)

cleanup_current_process_and_next(k) == reschedule(cleanup(k, k.current_proc))

\* the timer interrupt, rescheduling before the sleepers are woken
timer_int_yield_first(k) == tick(yield(k))

\* case TIMER_INT of dispatch (contextswitch has stored the interrupted eax)
timer_int(k) == yield(tick(k))


(* ------------------------------------------------------------------ *)
(* One iteration of dispatch()                                          *)
(* ------------------------------------------------------------------ *)
Sleeping(k, s) ==
    k.pcb_table[s].state = "BLOCKED" /\ k.pcb_table[s].blocked_queue = "SLEEP"
Live(k) == {s \in Slots : k.pcb_table[s].state # "STOPPED"}

\* the running process traps into the kernel with system call name
Enter(k, name, args) ==
    LET cur == k.current_proc IN
    [k EXCEPT !.evt = [EvtNone EXCEPT !.op = name, !.args = args, !.cur = cur],
              !.ucall[cur][Len(k.ucall[cur])] = Call(name, args)]

\* a hardware interrupt: contextswitch stores the interrupted eax in result_code
EnterInterrupt(k, name, eax) ==
    LET cur == k.current_proc
        k1 == [k EXCEPT !.evt = [EvtNone EXCEPT !.op = name, !.cur = cur]]
    IN IF cur = IDLE THEN k1 ELSE [k1 EXCEPT !.pcb_table[cur].result_code = eax]

\* the accepted characters left for later reads once a read has returned r
Returned(typed, r) ==
    IF r <= 0 THEN typed
    ELSE IF r >= Len(typed) THEN <<>>
    ELSE SubSeq(typed, r + 1, Len(typed))

\* top of the loop: handle_pending_signals(current_proc), then contextswitch:
\* the process continues with eax = result_code, which ends the system call
\* its top context was in
Finish(k) ==
    LET cur == k.current_proc
        k1 == handle_pending_signals(k, cur)
    IN IF cur = IDLE THEN k1
       ELSE LET n == Len(k1.ucall[cur])
                top == k1.ucall[cur][n]
            IN IF top.name # "none"
               THEN [k1 EXCEPT !.ucall[cur][n] = NoCall,
                               !.evt.ret = [proc |-> cur, name |-> top.name,
                                            args |-> top.args,
                                            result_code |-> k1.pcb_table[cur].result_code,
                                            why |-> top.why, aux |-> top.aux],
                               !.kbd.typed =
                                   IF top.name = "read"
                                   THEN Returned(@, k1.pcb_table[cur].result_code)
                                   ELSE @]
               ELSE k1

Commit(k) ==
    IF k.panic
    THEN /\ panic' = TRUE
         /\ UNCHANGED <<pcb_table, ready_queues, stopped_queue, receive_any_queue,
                        sleep_queue, current_proc, idle_proc, user_proc_count,
                        umem, ucall, wake_left, creates, dead_pids, evt, kbd, ubuf, mem, ps>>
    ELSE /\ pcb_table' = k.pcb_table
         /\ ready_queues' = k.ready_queues
         /\ stopped_queue' = k.stopped_queue
         /\ receive_any_queue' = k.receive_any_queue
         /\ sleep_queue' = k.sleep_queue
         /\ current_proc' = k.current_proc
         /\ idle_proc' = k.idle_proc
         /\ user_proc_count' = k.user_proc_count
         /\ panic' = k.panic
         /\ umem' = k.umem
         /\ ucall' = k.ucall
         /\ wake_left' = [s \in Slots |-> IF Sleeping(k, s) THEN k.wake_left[s] ELSE 0]
         /\ creates' = k.creates
         /\ dead_pids' = k.dead_pids
         /\ evt' = k.evt
         /\ kbd' = k.kbd
         /\ ubuf' = k.ubuf
         /\ mem' = k.mem
         /\ ps' = k.ps

StepCreate(k, func_ok, stack) ==
    Finish(service_syscreate(Enter(k, "create", <<func_ok, stack>>), func_ok, stack))
StepYield(k) == Finish(yield(Enter(k, "yield", <<>>)))
StepGetCpuTimes(k, ps_addr) ==
    Finish(service_sysgetcputimes(Enter(k, "getcputimes", <<ps_addr>>), ps_addr))
\* the stack of the process is freed with it
StepStop(k) ==
    LET cur == k.current_proc
        k1 == cleanup_current_process_and_next(Enter(k, "stop", <<>>))
    IN Finish([k1 EXCEPT !.dead_pids = @ \cup {k.pcb_table[cur].pid},
                         !.ucall[cur] = <<>>,
                         !.pcb_table[cur].frames = <<>>,
                         !.umem[cur] = [from_pid |-> 0, num |-> 0, old_handler |-> H_NULL]])
StepGetPid(k) == Finish(SetResult(Enter(k, "getpid", <<>>), k.pcb_table[k.current_proc].pid))
StepKill(k, pid, signal_number) == Finish(service_syskill(Enter(k, "kill", <<pid, signal_number>>), pid, signal_number))
StepSetPrio(k, req_priority) == Finish(service_syssetprio(Enter(k, "setprio", <<req_priority>>), req_priority))
StepSend(k, dest_pid, num) == Finish(service_syssend(Enter(k, "send", <<dest_pid, num>>), dest_pid, num))
\* the caller stores from in its from_pid cell and passes the two addresses
StepRecv(k, from, from_ok, num_ok) ==
    LET k0 == IF from_ok THEN [k EXCEPT !.umem[k.current_proc].from_pid = from] ELSE k IN
    Finish(service_sysrecv(Enter(k0, "recv", <<from, from_ok, num_ok>>), from_ok, num_ok))
StepSleep(k, milliseconds) ==
    LET cur == k.current_proc
        k0 == [k EXCEPT !.wake_left[cur] = (milliseconds + TIME_SLICE - 1) \div TIME_SLICE]
    IN Finish(service_syssleep(Enter(k0, "sleep", <<milliseconds>>), milliseconds))
StepSigHandler(k, sig, new_handler, new_ok, old_ok) ==
    Finish(service_syssighandler(Enter(k, "sighandler", <<sig, new_handler, new_ok, old_ok>>), sig, new_handler, new_ok, old_ok))
StepSigReturn(k) ==
    Finish(service_syssigreturn([k EXCEPT !.evt = [EvtNone EXCEPT !.op = "sigreturn",
                                                                 !.cur = k.current_proc]]))
StepWait(k, pid) == Finish(service_syswait(Enter(k, "wait", <<pid>>), pid))
StepOpen(k, device_no) == Finish(service_sysopen(Enter(k, "open", <<device_no>>), device_no))
StepClose(k, fd) == Finish(service_sysclose(Enter(k, "close", <<fd>>), fd))
\* the caller passes its read buffer
StepRead(k, fd, buf_ok, buflen) ==
    Finish(service_sysread(Enter(k, "read", <<fd, buflen>>), fd, k.current_proc,
                           buf_ok, buflen))
\* syswrite passes buf and buflen only: the kernel takes buf for the fd,
\* buflen for the buffer and the stack word after them (junk) for the
\* length; junk_ok: that buffer lies in user memory
StepWrite(k, fd, buf, buflen, junk_ok, junk) ==
    Finish(service_syswrite(Enter(k, "write", <<fd, buf, buflen>>), buf, junk_ok, junk))
StepIoctl(k, fd, command, ioctl_args) ==
    Finish(service_sysioctl(Enter(k, "ioctl", <<fd, command, ioctl_args>>),
                            fd, command, ioctl_args))
\* case KEYBOARD_INT of dispatch: no yield
StepKbd(k, eax, c) ==
    LET k0 == [k EXCEPT !.kbd.keys = @ + 1]
    IN Finish(kbd_isr(EnterInterrupt(k0, "kbd", eax), c))
StepTimer(k, eax) ==
    LET k0 == [k EXCEPT !.wake_left = [s \in Slots |-> IF Sleeping(k, s) THEN @[s] - 1 ELSE @[s]]]
    IN Finish(timer_int(EnterInterrupt(k0, "timer", eax)))

(* ------------------------------------------------------------------ *)
(* The requests user processes and the timer raise                      *)
(* ------------------------------------------------------------------ *)
\* the handler the trampoline of the running context was given ("none"
\* outside a signal context)
TopHandler ==
    LET fr == pcb_table[current_proc].frames IN
    IF Len(fr) = 0 THEN "none" ELSE fr[Len(fr)].handler
\* the running user process can issue a system call of its program or handler
UserRuns == ~panic /\ current_proc # IDLE /\ TopHandler # H_SYSSTOP

LivePids == {pcb_table[s].pid : s \in Live(K)}
\* values a user program may have in eax when it is interrupted
UserEAX == {7}

\* each action takes the sets its arguments are drawn from
SysCreate(max_live, max_creates, oks, stacks) ==
    /\ UserRuns /\ creates < max_creates /\ Cardinality(Live(K)) < max_live
    /\ \E func_ok \in oks, stack \in stacks : Commit(StepCreate(K, func_ok, stack))
SysYield == UserRuns /\ Commit(StepYield(K))
\* sysstop is also what the trampoline of signal 31 calls
SysStop == ~panic /\ current_proc # IDLE /\ Commit(StepStop(K))
SysGetPid == UserRuns /\ Commit(StepGetPid(K))
SysGetCpuTimes(addrs) ==
    UserRuns /\ \E ps_addr \in addrs : Commit(StepGetCpuTimes(K, ps_addr))
SysKill(pids, sigs) ==
    UserRuns /\ \E pid \in pids, sig \in sigs : Commit(StepKill(K, pid, sig))
SysSetPrio(prios) == UserRuns /\ \E p \in prios : Commit(StepSetPrio(K, p))
SysSend(pids, words) ==
    UserRuns /\ \E pid \in pids, w \in words : Commit(StepSend(K, pid, w))
SysRecv(pids, oks) ==
    /\ UserRuns
    /\ \E from \in pids, from_ok \in oks, num_ok \in oks :
          Commit(StepRecv(K, from, from_ok, num_ok))
SysSleep(mss) == UserRuns /\ \E ms \in mss : Commit(StepSleep(K, ms))
SysSigHandler(sigs, handlers, oks) ==
    /\ UserRuns
    /\ \E sig \in sigs, h \in handlers, new_ok \in oks, old_ok \in oks :
          Commit(StepSigHandler(K, sig, h, new_ok, old_ok))
\* the trampoline calls syssigreturn when the handler returns
SysSigReturn ==
    /\ UserRuns /\ Len(pcb_table[current_proc].frames) > 0
    /\ Commit(StepSigReturn(K))
SysWait(pids) == UserRuns /\ \E pid \in pids : Commit(StepWait(K, pid))
SysOpen(devs) == UserRuns /\ \E d \in devs : Commit(StepOpen(K, d))
SysClose(fds) == UserRuns /\ \E fd \in fds : Commit(StepClose(K, fd))
SysRead(fds, lens, oks) ==
    /\ UserRuns
    /\ \E fd \in fds, buflen \in lens, buf_ok \in oks :
          Commit(StepRead(K, fd, buf_ok, buflen))
SysWrite(fds, bufs, lens, junks) ==
    /\ UserRuns
    /\ \E fd \in fds, buf \in bufs, buflen \in lens, junk_ok \in BOOLEAN, junk \in junks :
          Commit(StepWrite(K, fd, buf, buflen, junk_ok, junk))
SysIoctl(fds, commands, ioctl_argss) ==
    /\ UserRuns
    /\ \E fd \in fds, command \in commands, ioctl_args \in ioctl_argss :
          Commit(StepIoctl(K, fd, command, ioctl_args))
\* a key is pressed while the controller and its interrupt line are on;
\* max_keys bounds the number of keys
KbdInt(chars, eaxs, max_keys) ==
    /\ ~panic /\ kbd.enabled /\ kbd.keys < max_keys
    /\ \E c \in chars :
       \E eax \in (IF current_proc = IDLE THEN {0}
                   ELSE {pcb_table[current_proc].result_code} \cup eaxs) :
          Commit(StepKbd(K, eax, c))
\* the letter the next key types: 'a', 'b', ... in turn
NextKey == 97 + kbd.keys
TimerInt(eaxs) ==
    /\ ~panic
    /\ \E eax \in (IF current_proc = IDLE THEN {0}
                   ELSE {pcb_table[current_proc].result_code} \cup eaxs) :
          Commit(StepTimer(K, eax))

(* ------------------------------------------------------------------ *)
(* Initial state                                                        *)
(* ------------------------------------------------------------------ *)
\* the kernel's data when kdispinit is entered: the PCB table and
\* user_proc_count are zeroed static data; the queues are shown as
\* init_queue leaves them, the idle process and the list of sleepers as
\* create_idle_proc and ksleepinit leave them
KStatic ==
    [pcb_table |-> [i \in Slots |-> ZeroPcb],
     ready_queues |-> [i \in 0 .. (NUM_PRIORITIES - 1) |-> <<>>],
     stopped_queue |-> <<>>,
     receive_any_queue |-> <<>>,
     sleep_queue |-> <<>>,
     current_proc |-> NULLP,
     idle_proc |-> [pid |-> IDLE_PROC_PID, state |-> "RUNNING"],
     user_proc_count |-> 0,
     panic |-> FALSE,
     umem |-> [s \in Slots |-> [from_pid |-> 0, num |-> 0, old_handler |-> H_NULL]],
     ucall |-> [s \in Slots |-> <<>>],
     wake_left |-> [s \in Slots |-> 0],
     creates |-> 0,
     dead_pids |-> {},
     evt |-> EvtNone,
     kbd |-> KbdBoot,
     ubuf |-> [s \in Slots |-> [i \in 0 .. (MemLen - 1) |-> 0]],
     mem |-> create_idle_proc(kmeminit),
     ps |-> <<>>]

\* the loop of kdispinit over the PCB table, from slot i on: the PID is set
\* and stop puts the PCB on the stopped queue
RECURSIVE kdispinit_table(_, _)
kdispinit_table(k, i) ==
    IF i < PCB_TABLE_SIZE
    THEN kdispinit_table(stop([k EXCEPT !.pcb_table[i].pid = i + 1], i), i + 1)
    ELSE k

\* kdispinit, leaving user_proc_count as the calls of stop have left it
kdispinit_counting_stops(k) == kdispinit_table(k, 0)

kdispinit(k) == [kdispinit_table(k, 0) EXCEPT !.user_proc_count = 0]

\* after kmeminit(), kdispinit() and ksleepinit()
KInit == kdispinit(KStatic)

\* initproc: create(&init, PROCESS_STACK_SIZE); dispatch() up to its first
\* context switch
KBoot == Finish(reschedule(create(KInit, TRUE, PROCESS_STACK_SIZE).k))

InitFrom(k) ==
    /\ pcb_table = k.pcb_table
    /\ ready_queues = k.ready_queues
    /\ stopped_queue = k.stopped_queue
    /\ receive_any_queue = k.receive_any_queue
    /\ sleep_queue = k.sleep_queue
    /\ current_proc = k.current_proc
    /\ idle_proc = k.idle_proc
    /\ user_proc_count = k.user_proc_count
    /\ panic = k.panic
    /\ umem = k.umem
    /\ ucall = k.ucall
    /\ wake_left = k.wake_left
    /\ creates = 0
    /\ dead_pids = k.dead_pids
    /\ evt = EvtNone
    /\ kbd = k.kbd
    /\ ubuf = k.ubuf
    /\ mem = k.mem
    /\ ps = k.ps

Init == InitFrom(KBoot)

\* ---- message passing between up to three processes
MaxLive == 2
MaxCreates == 1
Words == {1, 256}
Next ==
    \/ SysCreate(MaxLive, MaxCreates, {TRUE}, {PROCESS_STACK_SIZE})
    \/ SysYield
    \/ SysStop
    \/ SysSend(LivePids, Words)
    \/ SysRecv(LivePids \cup {0}, {TRUE})

Spec == Init /\ [][Next]_vars

(* ------------------------------------------------------------------ *)
(* Message passing (Spec)                                               *)
(* ------------------------------------------------------------------ *)
Runnable(proc) == pcb_table[proc].state \in {"READY", "RUNNING"}
\* proc is on no Sender or Receiver queue and not on the receive-any queue
OnNoIpcQueue(proc) ==
    /\ proc \notin SeqToSet(receive_any_queue)
    /\ \A s \in Slots : \A q \in {"SENDER", "RECEIVER"} :
          proc \notin SeqToSet(pcb_table[s].blocked_queues[q])
\* s is blocked sending to r while r is blocked receiving from s or from anyone
BothBlocked(s, r) ==
    /\ s \in SeqToSet(pcb_table[r].blocked_queues["SENDER"])
    /\ \/ r \in SeqToSet(pcb_table[s].blocked_queues["RECEIVER"])
       \/ r \in SeqToSet(receive_any_queue)

\* C1: after a matched send/recv pair both parties are Ready or Running with
\* result 0, neither is left on a Sender, Receiver or receive-any queue and
\* the receiver's from_pid cell holds the sender's PID; a syssend or sysrecv
\* returns 0 exactly when it took part in one rendezvous, and never is a
\* sender blocked on a receiver that is blocked waiting for it.
C1_Rendezvous ==
    /\ evt.match # <<>> =>
          LET s == evt.match[1]
              r == evt.match[2]
          IN /\ Runnable(s) /\ Runnable(r)
             /\ pcb_table[s].result_code = 0 /\ pcb_table[r].result_code = 0
             /\ OnNoIpcQueue(s) /\ OnNoIpcQueue(r)
             /\ umem[r].from_pid = pcb_table[s].pid
    /\ evt.ret.name \in {"send", "recv"} =>
          /\ (evt.ret.result_code = 0) <=> (evt.ret.why = <<"match">>)
          /\ Len(SelectSeq(evt.ret.why, LAMBDA y : y = "match")) <= 1
    /\ \A s \in Slots, r \in Slots : ~BothBlocked(s, r)

\* a send has found its receiver blocked (targeted or receive-any) and woken it
C1_Witness ==
    /\ evt.op = "send" /\ evt.match # <<>>
    /\ pcb_table[evt.match[2]].state = "READY"
    /\ umem[evt.match[2]].from_pid = pcb_table[evt.cur].pid

\* C2: when syssend(D, w) is matched with a sysrecv by D, the receive buffer
\* of D holds exactly w.
C2_WordDelivered ==
    evt.match # <<>> => umem[evt.match[2]].num = evt.match[3]

\* C4: when a process terminates, every process blocked in a syssend to it or
\* in a targeted sysrecv from it is taken off its queue and made Ready with
\* result -1, and the call returns -1; nobody stays blocked on a stopped
\* process.
C4_PeerTerminated ==
    /\ \A i \in 1 .. Len(evt.term) :
          LET p == evt.term[i][1] IN
          evt.term[i][2] \in {"SENDER", "RECEIVER"} =>
             /\ Runnable(p) /\ pcb_table[p].result_code = -1
             /\ OnNoIpcQueue(p)
    /\ \A s \in Slots :
          /\ (pcb_table[s].state = "BLOCKED"
                /\ pcb_table[s].blocked_queue \in {"SENDER", "RECEIVER"})
             => pcb_table[pcb_table[s].blocked_on].state # "STOPPED"
          /\ pcb_table[s].state = "STOPPED" =>
                \A q \in {"SENDER", "RECEIVER"} : pcb_table[s].blocked_queues[q] = <<>>
    /\ (evt.ret.name \in {"send", "recv"} /\ evt.ret.why = <<"term">>)
          => evt.ret.result_code = -1

\* a process that was blocked receiving from the one that stopped resumes
\* with -1
C4_Witness ==
    /\ evt.op = "stop" /\ Len(evt.term) > 0 /\ evt.term[1][2] = "RECEIVER"
    /\ evt.ret.proc = evt.term[1][1] /\ evt.ret.name = "recv"
    /\ evt.ret.result_code = -1

(* ------------------------------------------------------------------ *)
(* Several senders and one receive-any (SpecFifo)                       *)
(* ------------------------------------------------------------------ *)
MaxSenders == 2
FifoWords == {256}
NextFifo ==
    \/ SysCreate(MaxSenders + 1, MaxSenders, {TRUE}, {PROCESS_STACK_SIZE})
    \/ SysYield
    \/ SysSend(LivePids, FifoWords)
    \/ SysRecv({0}, {TRUE})

SpecFifo == Init /\ [][NextFifo]_vars

\* a step in which R calls receive-any while senders are queued on it: R
\* does not block and gets the PID of the sender at the head of the queue,
\* which is woken with 0 and leaves the queue
FifoOrder(r) ==
    LET q == pcb_table[r].blocked_queues["SENDER"]
        s == Head(q)
    IN /\ pcb_table'[r].blocked_queues["SENDER"] = Tail(q)
       /\ current_proc' = r /\ evt'.ret.proc = r /\ evt'.ret.result_code = 0
       /\ umem'[r].from_pid = pcb_table[s].pid
       /\ pcb_table'[s].state = "READY" /\ pcb_table'[s].result_code = 0
\* ... and the word that sender passed to syssend
FifoWord(r) ==
    LET s == Head(pcb_table[r].blocked_queues["SENDER"]) IN
    umem'[r].num = ucall[s][Len(ucall[s])].args[2]
\* a sender that blocks joins the tail of the receiver's Sender queue
SenderQueuesLast ==
    \A s \in Slots, r \in Slots :
       (evt'.op = "send" /\ evt'.cur = s /\ pcb_table'[s].state = "BLOCKED"
          /\ pcb_table'[s].blocked_on = r)
       => pcb_table'[r].blocked_queues["SENDER"] =
             Append(pcb_table[r].blocked_queues["SENDER"], s)
ReceiveAnyWithSenders(r) ==
    /\ evt'.op = "recv" /\ evt'.args[1] = 0 /\ evt'.cur = r
    /\ pcb_table[r].blocked_queues["SENDER"] # <<>>

\* C3: senders that block in a syssend to R are queued in the order they
\* block, and each receive-any of R completes without blocking, returns the
\* PID and the word of the sender at the head of that queue and wakes it
\* with 0.
C3_FifoReceiveAny ==
    [][/\ SenderQueuesLast
       /\ \A r \in Slots : ReceiveAnyWithSenders(r) => FifoOrder(r) /\ FifoWord(r)]_vars

(* ------------------------------------------------------------------ *)
(* Scheduling (SpecSched)                                               *)
(* ------------------------------------------------------------------ *)
MaxSchedLive == 3
MaxSchedCreates == 2
SchedPrios == {0, 3}
SchedSleepMs == {10}
NextSched ==
    \/ SysCreate(MaxSchedLive, MaxSchedCreates, {TRUE}, {PROCESS_STACK_SIZE})
    \/ SysYield
    \/ SysSetPrio(SchedPrios)
    \/ SysSleep(SchedSleepMs)
    \/ SysStop
    \/ TimerInt({})

SpecSched == Init /\ [][NextSched]_vars

Priorities == 0 .. (NUM_PRIORITIES - 1)
IdleNeverQueued ==
    \A i \in Priorities : SeqToSet(ready_queues[i]) \subseteq Slots
\* a step in which next() ran: the process that runs afterwards was the head
\* of the non-empty ready queue of the highest priority, or is the idle
\* process when every ready queue was empty
SelectedByPriority ==
    evt'.next =>
       IF current_proc' = IDLE
       THEN \A i \in Priorities : ready_queues'[i] = <<>>
       ELSE LET pr == pcb_table'[current_proc'].priority IN
            /\ \A i \in 0 .. (pr - 1) : ready_queues'[i] = <<>>
            /\ ready_queues[pr] # <<>> => current_proc' = Head(ready_queues[pr])
            /\ \A i \in Priorities : current_proc' \notin SeqToSet(ready_queues'[i])

\* C5: the dispatcher always selects the head of the non-empty ready queue
\* with the numerically lowest priority, the idle process only when all
\* four ready queues are empty, and the idle PCB is never on a ready queue.
C5_NextByPriority == [](IdleNeverQueued) /\ [][SelectedByPriority]_vars

\* the idle process was running when the timer woke a sleeper: idle yields
\* without being queued, and the sleeper is selected
C5_Witness ==
    /\ evt.op = "timer" /\ evt.cur = IDLE /\ evt.next
    /\ current_proc # IDLE
    /\ \E i \in Priorities : ready_queues[i] # <<>>

(* ------------------------------------------------------------------ *)
(* PIDs (SpecPid)                                                       *)
(* ------------------------------------------------------------------ *)
\* Stopped PCBs are reused in FIFO order, so a slot is reused only after
\* PCB_TABLE_SIZE - 1 further processes have been created.  The system has
\* therefore run for a while: the root process has created BootCycles
\* children one after the other, and each has run and stopped.
BootCycles == 30
RECURSIVE Reaped(_, _)
Reaped(k, n) ==
    IF n = 0 THEN k
    ELSE LET k1 == StepStop(StepYield(StepCreate(k, TRUE, PROCESS_STACK_SIZE))) IN
         IF k1.panic THEN k1 ELSE Reaped(k1, n - 1)

InitPid == InitFrom(Reaped(KBoot, BootCycles))

MaxPidLive == 3
MaxPidCreates == 2
\* the PIDs looked up: every PID up to MaxProbePid, 0 and -1
MaxProbePid == 130
ProbePids == (-1) .. MaxProbePid
\* the PIDs of terminated processes whose slot is in use again
StalePids == {pid \in dead_pids : (pid - 1) % PCB_TABLE_SIZE \in Live(K)}
NextPid ==
    \/ SysCreate(MaxPidLive, MaxPidCreates, {TRUE}, {PROCESS_STACK_SIZE})
    \/ SysYield
    \/ SysStop
    \/ SysKill(LivePids \cup StalePids \cup {0}, {0})

SpecPid == InitPid /\ [][NextPid]_vars

\* C6: the PIDs of the non-stopped PCBs are distinct and >= 1, the PID p of
\* every PCB satisfies (p - 1) mod 32 = its slot, a lookup succeeds iff a
\* non-stopped slot stores exactly that PID, and the PID of a terminated
\* process is never found again, also after its slot has been reused.
C6_Pids ==
    /\ \A s \in Live(K) : pcb_table[s].pid >= 1
    /\ \A s \in Live(K), t \in Live(K) : s # t => pcb_table[s].pid # pcb_table[t].pid
    /\ \A s \in Slots : (pcb_table[s].pid - 1) % PCB_TABLE_SIZE = s
    /\ \A pid \in ProbePids :
          (get_pcb(K, pid) # NULLP) <=> (\E s \in Live(K) : pcb_table[s].pid = pid)
    /\ \A pid \in dead_pids : get_pcb(K, pid) = NULLP
    /\ (evt.op = "kill" /\ evt.args[1] \in dead_pids) => evt.ret.result_code = -514

\* syskill with the PID of a terminated process whose slot a new process
\* has taken over
C6_Witness ==
    /\ evt.op = "kill" /\ evt.args[1] \in dead_pids
    /\ pcb_table[(evt.args[1] - 1) % PCB_TABLE_SIZE].state # "STOPPED"
    /\ evt.ret.result_code = -514

(* ------------------------------------------------------------------ *)
(* Sleeping (SpecSleep)                                                 *)
(* ------------------------------------------------------------------ *)
MaxSleepLive == 3
MaxSleepCreates == 2
SleepMs == {10, 25}
SleepSigs == {3}
\* The programs: the root process creates the others and signals them, the
\* others install a handler once; everybody sleeps; a handler just returns.
IsRoot == current_proc = 0
InProgram == current_proc # IDLE /\ pcb_table[current_proc].frames = <<>>
NoHandlerYet(sig) ==
    current_proc # IDLE /\ pcb_table[current_proc].signal_table[sig] = H_NULL
OtherPids == LivePids \ {PidOf(K, current_proc)}
NextSleep ==
    \/ IsRoot /\ SysCreate(MaxSleepLive, MaxSleepCreates, {TRUE}, {PROCESS_STACK_SIZE})
    \/ InProgram /\ SysSleep(SleepMs)
    \/ TimerInt({})
    \/ \E sig \in SleepSigs :
          /\ ~IsRoot /\ InProgram /\ NoHandlerYet(sig)
          /\ SysSigHandler({sig}, {H_USER}, {TRUE})
    \/ IsRoot /\ SysKill(OtherPids, SleepSigs)
    \/ SysSigReturn

SpecSleep == Init /\ [][NextSleep]_vars

\* the timer ticks until the sleeper at position i of the delta list is due:
\* the sum of the keys from the head through it
RECURSIVE Remaining(_)
Remaining(i) ==
    IF i = 0 THEN 0 ELSE Remaining(i - 1) + pcb_table[sleep_queue[i]].key

\* C7: a process that sleeps for ms > 0 and is not signalled is made Ready
\* during the ceil(ms/10)-th timer tick after its call, not before and not
\* later, and its syssleep returns 0, whatever else is inserted into, woken
\* from or removed from the delta list meanwhile.
C7_SleepWakesOnTime ==
    /\ \A i \in 1 .. Len(evt.woken) :
          /\ evt.woken[i][2] = 0
          /\ Runnable(evt.woken[i][1])
    /\ \A s \in Slots : Sleeping(K, s) => wake_left[s] >= 1
    /\ (evt.ret.name = "sleep" /\ evt.ret.args[1] > 0 /\ evt.ret.why # <<"signal">>)
          => evt.ret.why = <<"tick">> /\ evt.ret.result_code = 0

\* a tick wakes one sleeper while others, with later wake-up ticks, sleep on,
\* and the woken process returns from syssleep
C7_Witness ==
    /\ evt.op = "timer" /\ Len(evt.woken) = 1 /\ Len(sleep_queue) >= 1
    /\ evt.ret.name = "sleep" /\ evt.ret.args = <<25>> /\ evt.ret.result_code = 0

\* C8: a sleeper that is sent a signal it has a handler for, j < t ticks
\* into its sleep of t ticks, is off the delta list when syskill returns,
\* its syssleep returns (t - j) * 10, and every other sleeper is still due
\* at the tick it asked for.
C8_SleepInterrupted ==
    /\ (evt.sig # <<>> /\ evt.sig[2] = "SLEEP") =>
          /\ evt.sig[1] \notin SeqToSet(sleep_queue)
          /\ pcb_table[evt.sig[1]].state = "READY"
          /\ pcb_table[evt.sig[1]].result_code = evt.sig[3] * TIME_SLICE
    /\ (evt.ret.name = "sleep" /\ evt.ret.why = <<"signal">>)
          => evt.ret.result_code = evt.ret.aux * TIME_SLICE
    /\ \A i \in 1 .. Len(sleep_queue) : Remaining(i) = wake_left[sleep_queue[i]]

\* a sleeper with others before and behind it is signalled two ticks before
\* it is due
C8_Witness ==
    /\ evt.op = "kill" /\ evt.sig # <<>> /\ evt.sig[2] = "SLEEP" /\ evt.sig[3] = 2
    /\ Len(sleep_queue) >= 1

(* ------------------------------------------------------------------ *)
(* Signals to blocked processes (SpecSigBlocked)                        *)
(* ------------------------------------------------------------------ *)
MaxSigLive == 2
MaxSigCreates == 1
BlockSigs == {3}
SigWords == {1}
NextSigBlocked ==
    \/ IsRoot /\ SysCreate(MaxSigLive, MaxSigCreates, {TRUE}, {PROCESS_STACK_SIZE})
    \/ InProgram /\ SysYield
    \/ InProgram /\ SysSend(OtherPids, SigWords)
    \/ InProgram /\ SysRecv(OtherPids \cup {0}, {TRUE})
    \/ InProgram /\ SysWait(OtherPids)
    \/ \E sig \in BlockSigs :
          /\ InProgram /\ NoHandlerYet(sig)
          /\ SysSigHandler({sig}, {H_USER}, {TRUE})
    \/ InProgram /\ SysKill(OtherPids, BlockSigs)
    \/ SysSigReturn

SpecSigBlocked == Init /\ [][NextSigBlocked]_vars

OnNoWaitQueue(proc) ==
    \A s \in Slots : proc \notin SeqToSet(pcb_table[s].blocked_queues["WAIT"])

PrioSigs == {3, 5}
NextSigPrio ==
    \/ IsRoot /\ SysCreate(MaxSigLive, MaxSigCreates, {TRUE}, {PROCESS_STACK_SIZE})
    \/ SysYield
    \/ \E sig \in PrioSigs :
          NoHandlerYet(sig) /\ SysSigHandler({sig}, {H_USER}, {TRUE})
    \/ SysKill(LivePids, PrioSigs)
    \/ SysSigReturn

SpecSigPrio == Init /\ [][NextSigPrio]_vars

\* the signals whose handlers are running in proc, innermost last
RunningHandlers(proc) ==
    LET fr == pcb_table[proc].frames IN
    [i \in 1 .. Len(fr) |->
        IF i < Len(fr) THEN fr[i + 1].last_signal_delivered
        ELSE pcb_table[proc].last_signal_delivered]

\* C10: a handler is dispatched only for a signal above the one whose
\* handler is running, so the handlers running in a process are nested in
\* increasing signal order and none is entered twice; and a pending signal
\* above the running handler's is dispatched at the next resumption: the
\* process that runs has no such signal pending.
C10_SignalPriority ==
    /\ evt.deliv # <<>> => evt.deliv[2] > evt.deliv[3]
    /\ \A s \in Live(K) :
          LET h == RunningHandlers(s) IN
          /\ Len(h) = 0 => pcb_table[s].last_signal_delivered = -1
          /\ Len(h) > 0 => pcb_table[s].frames[1].last_signal_delivered = -1
          /\ \A i \in 1 .. Len(h) : \A j \in 1 .. Len(h) : i < j => h[i] < h[j]
    /\ current_proc # IDLE =>
          \A sig \in pcb_table[current_proc].pending_signals :
             sig <= pcb_table[current_proc].last_signal_delivered

\* the handler of the higher signal has interrupted the handler of the lower
\* one, while a second instance of the lower one stays pending
C10_Witness ==
    /\ current_proc # IDLE
    /\ RunningHandlers(current_proc) = <<3, 5>>
    /\ pcb_table[current_proc].pending_signals = {3}
    /\ evt.deliv # <<>> /\ evt.deliv[2] = 5 /\ evt.deliv[3] = 3

(* ------------------------------------------------------------------ *)
(* Signal 31 (SpecKill)                                                 *)
(* ------------------------------------------------------------------ *)
KillSigs == {3, 31}
KillSleepMs == {10}
\* The programs: the root process creates the other and signals it and
\* itself; the other installs a handler (also trying signal 31) and signals
\* from its handler; both block in a receive or a sleep and yield.
NextKill ==
    \/ IsRoot /\ SysCreate(MaxSigLive, MaxSigCreates, {TRUE}, {PROCESS_STACK_SIZE})
    \/ SysYield
    \/ InProgram /\ SysRecv(OtherPids \cup {0}, {TRUE})
    \/ InProgram /\ SysSleep(KillSleepMs)
    \/ \E sig \in KillSigs :
          /\ InProgram /\ ~IsRoot
          /\ (NoHandlerYet(sig) \/ sig = SIGNAL_TABLE_SIZE - 1)
          /\ SysSigHandler({sig}, {H_USER}, {TRUE})
    \/ (IsRoot \/ ~InProgram) /\ SysKill(LivePids, KillSigs)
    \/ SysSigReturn
    \/ current_proc # IDLE /\ TopHandler = H_SYSSTOP /\ SysStop

SpecKill == Init /\ [][NextKill]_vars

\* signal 31 has been posted to the process in slot s and not yet ended it
Killed(s) ==
    /\ pcb_table[s].state # "STOPPED"
    /\ \/ (SIGNAL_TABLE_SIZE - 1) \in pcb_table[s].pending_signals
       \/ pcb_table[s].last_signal_delivered = SIGNAL_TABLE_SIZE - 1

HardKillState ==
    /\ \A s \in Live(K) : pcb_table[s].signal_table[SIGNAL_TABLE_SIZE - 1] = H_SYSSTOP
    /\ (evt.op = "sighandler" /\ evt.args[1] = SIGNAL_TABLE_SIZE - 1)
          => pcb_table[evt.cur].result_code = -1
    /\ \A s \in Slots : Killed(s) => pcb_table[s].state \in {"READY", "RUNNING"}
    /\ (current_proc # IDLE /\ Killed(current_proc)) => TopHandler = H_SYSSTOP
    /\ evt.ret.proc # NULLP => ~Killed(evt.ret.proc)

HardKillStep ==
    /\ (evt'.op = "sighandler" /\ evt'.args[1] = SIGNAL_TABLE_SIZE - 1)
          => pcb_table'[evt'.cur].signal_table = pcb_table[evt'.cur].signal_table
    /\ (current_proc # IDLE /\ Killed(current_proc) /\ evt'.op # "timer")
          => (evt'.op = "stop" /\ pcb_table'[current_proc].state = "STOPPED")

\* C11: every live process has sysstop as its handler of signal 31;
\* syssighandler(31, ...) returns -1 and leaves the signal table as it was;
\* a live process that has been sent signal 31 is Ready or Running, never
\* gets a system call result back, runs only the trampoline of signal 31
\* when it is resumed, and the only request it makes is the sysstop that
\* leaves it Stopped.
C11_HardKill == [](HardKillState) /\ [][HardKillStep]_vars

\* the trampoline of signal 31 has been spliced over the running handler of
\* signal 3: the process is resumed in it and not in the handler
C11_Witness ==
    /\ current_proc # IDLE /\ evt.deliv = <<current_proc, SIGNAL_TABLE_SIZE - 1, 3>>
    /\ Len(pcb_table[current_proc].frames) = 2
    /\ pcb_table[current_proc].frames[1].handler = H_USER
    /\ TopHandler = H_SYSSTOP

(* ------------------------------------------------------------------ *)
(* Signals without a handler (SpecSigBlocked)                           *)
(* ------------------------------------------------------------------ *)
\* the step is a syskill(pid, sig) by the running process to another live
\* process, in slot tgt, whose handler of sig is null
KillIgnored(tgt) ==
    /\ evt'.op = "kill" /\ evt'.cur = current_proc
    /\ tgt # current_proc /\ tgt = get_pcb(K, evt'.args[1])
    /\ evt'.args[2] \in Signals
    /\ pcb_table[tgt].signal_table[evt'.args[2]] = H_NULL

\* C12: syskill(target, n) for a signal n whose handler in the target's
\* table is null returns 0 and leaves the target's PCB (pending signals,
\* state, blocked_on, blocked queue, result code, its own queues) and every
\* kernel queue as they were: a blocked target stays blocked where it was.
C12_NullHandlerIgnored ==
    [][\A tgt \in Slots : KillIgnored(tgt) =>
          /\ pcb_table'[tgt] = pcb_table[tgt]
          /\ ready_queues' = ready_queues
          /\ receive_any_queue' = receive_any_queue
          /\ sleep_queue' = sleep_queue
          /\ \A s \in Slots : pcb_table'[s].blocked_queues = pcb_table[s].blocked_queues
          /\ pcb_table'[current_proc].result_code = 0
          /\ evt'.ret.proc = current_proc /\ evt'.ret.result_code = 0]_vars

\* a process blocked in a receive has been sent a signal it has no handler
\* for: it is still blocked and has nothing pending
C12_Witness ==
    /\ evt.op = "kill" /\ evt.sig = <<>> /\ evt.ret.result_code = 0
    /\ LET tgt == get_pcb(K, evt.args[1]) IN
          /\ tgt # NULLP /\ tgt # evt.cur
          /\ pcb_table[tgt].signal_table[evt.args[2]] = H_NULL
          /\ pcb_table[tgt].state = "BLOCKED"
          /\ pcb_table[tgt].blocked_queue \in {"RECEIVER", "RECEIVE_ANY"}
          /\ pcb_table[tgt].pending_signals = {}

(* ------------------------------------------------------------------ *)
(* Reading the keyboard (SpecKbd)                                       *)
(* ------------------------------------------------------------------ *)
MaxKeys == 5
ReadLens == {2, 3}
\* One process opens a keyboard, reads from it and closes it while keys
\* are typed: letters, Enter and the EOF character.
NextKbd ==
    \/ SysOpen({0, 1})
    \/ SysClose({0})
    \/ SysRead({0}, ReadLens, {TRUE})
    \/ KbdInt({NextKey, NEWLINE, DEFAULT_EOF}, {}, MaxKeys)
    \/ TimerInt({})

SpecKbd == Init /\ [][NextKbd]_vars

\* the step returns r > 0 from a sysread(fd, buf, n) of process p
ReadReturns(p, n, r) ==
    /\ evt'.ret.name = "read" /\ evt'.ret.proc = p
    /\ evt'.ret.args[2] = n /\ evt'.ret.result_code = r /\ r > 0

\* C13: a sysread(fd, buf, n) that returns r > 0 has r <= n, has stored the
\* next r characters that were typed, accepted by the driver and not yet
\* returned by an earlier read, in order, in buf[0..r-1], and has written
\* nothing at or beyond buf[n].
C13_ReadDelivers ==
    [][\A p \in Slots : \A n \in ReadLens : \A r \in 1 .. (MaxKeys + 1) :
          ReadReturns(p, n, r) =>
             /\ r <= n
             /\ r <= Len(kbd.typed)
             /\ \A i \in 0 .. (r - 1) : i < MemLen => ubuf'[p][i] = kbd.typed[i + 1]
             /\ kbd'.hi < n]_vars

\* C14: a sysread(fd, buf, n) does not stay blocked once the characters
\* the driver has accepted for it hold n characters or a newline, or once
\* the EOF character has been consumed.
C14_ReadCompletes ==
    \A p \in Slots :
       (pcb_table[p].state = "BLOCKED" /\ pcb_table[p].blocked_queue = "READ") =>
          LET n == ucall[p][Len(ucall[p])].args[2] IN
          /\ kbd.eof_flag = 0
          /\ Len(kbd.typed) < n
          /\ \A i \in 1 .. Len(kbd.typed) : kbd.typed[i] # NEWLINE

(* ------------------------------------------------------------------ *)
(* End of file on the keyboard (SpecEof)                                *)
(* ------------------------------------------------------------------ *)
MaxEofKeys == 3
EofReadLens == {2}
\* 'b', which the process may make the EOF character
EofChars == {98}
\* One process opens a keyboard, may change the EOF character, reads and
\* closes, while 'a', 'b' and Ctrl-D are typed.
NextEof ==
    \/ SysOpen({0})
    \/ SysClose({0})
    \/ SysIoctl({0}, {IOCTL_CHANGE_EOF}, EofChars)
    \/ SysRead({0}, EofReadLens, {TRUE})
    \/ KbdInt({97} \cup EofChars \cup {DEFAULT_EOF}, {}, MaxEofKeys)
    \/ TimerInt({})

SpecEof == Init /\ [][NextEof]_vars

\* a sysread on an open descriptor issued after the EOF character was
\* consumed returns 0 to its caller in the same dispatcher iteration
ReadAfterEof ==
    (/\ kbd.eof_flag = 1 /\ evt'.op = "read" /\ evt'.cur = current_proc
     /\ is_valid_fd(K, current_proc, evt'.args[1]))
    => /\ current_proc' = current_proc
       /\ pcb_table'[current_proc].state # "BLOCKED"
       /\ evt'.ret.proc = current_proc /\ evt'.ret.name = "read"
       /\ evt'.ret.result_code = 0
\* the EOF flag stays set until the device is closed
EofUntilClose ==
    (kbd.eof_flag = 1 /\ kbd'.eof_flag # 1) => evt'.op = "close"
\* a successful open leaves the EOF flag clear and the default EOF character
OpenResetsEof ==
    (evt'.op = "open" /\ evt'.ret.result_code >= 0)
    => (kbd'.eof_flag = 0 /\ kbd'.eof = DEFAULT_EOF)

\* C15: once the driver has consumed the EOF character, every later sysread
\* on the descriptor returns 0 without blocking until the device is closed,
\* and the next successful open resets the EOF flag and the EOF character
\* to their defaults.
C15_EofSticky == [][ReadAfterEof /\ EofUntilClose /\ OpenResetsEof]_vars

\* with 'b' made the EOF character and typed, a later read has returned 0
C15_Witness ==
    /\ kbd.eof_flag = 1 /\ kbd.eof = 98
    /\ evt.op = "read" /\ evt.ret.name = "read" /\ evt.ret.result_code = 0
    /\ kbd.read_buf # NULLP

(* ------------------------------------------------------------------ *)
(* Signals to a blocked reader (SpecKbdSig)                             *)
(* ------------------------------------------------------------------ *)
MaxSigKeys == 3
SigReadLens == {2, 3}
\* The programs: the root process creates the reader and signals it; the
\* reader installs a handler, opens the keyboard and reads; the handler
\* just returns.
NextKbdSig ==
    \/ IsRoot /\ SysCreate(MaxSigLive, MaxSigCreates, {TRUE}, {PROCESS_STACK_SIZE})
    \/ IsRoot /\ SysYield
    \/ IsRoot /\ SysKill(OtherPids, BlockSigs)
    \/ \E sig \in BlockSigs :
          /\ ~IsRoot /\ InProgram /\ NoHandlerYet(sig)
          /\ SysSigHandler({sig}, {H_USER}, {TRUE})
    \/ ~IsRoot /\ InProgram /\ SysOpen({0})
    \/ ~IsRoot /\ InProgram /\ SysRead({0}, SigReadLens, {TRUE})
    \/ SysSigReturn
    \/ KbdInt({NextKey}, {}, MaxSigKeys)
    \/ TimerInt({})

SpecKbdSig == Init /\ [][NextKbdSig]_vars

\* what an interrupted read returns when got characters were stored for it
InterruptedRead(got) == IF got > 0 THEN got ELSE -666

\* C16: a process blocked in a keyboard sysread that is sent a signal it
\* has a handler for is Ready when syskill returns, with the number of
\* characters stored in its buffer for this read as its result if that
\* number is > 0 and -666 otherwise, and its sysread returns that value.
C16_ReadInterrupted ==
    /\ (evt.sig # <<>> /\ evt.sig[2] = "READ") =>
          /\ evt.op = "kill"
          /\ pcb_table[evt.sig[1]].state = "READY"
          /\ pcb_table[evt.sig[1]].result_code = InterruptedRead(evt.sig[3])
    /\ (evt.ret.name = "read" /\ evt.ret.why = <<"signal">>) =>
          evt.ret.result_code = InterruptedRead(evt.ret.aux)

(* ------------------------------------------------------------------ *)
(* One keyboard descriptor system-wide (SpecOpen)                       *)
(* ------------------------------------------------------------------ *)
MaxOpenLive == 3
MaxOpenCreates == 2
KbdMinors == {0, 1}
\* Every process may open either minor, close its descriptors, yield and
\* stop; the root process creates the others.
NextOpen ==
    \/ IsRoot /\ SysCreate(MaxOpenLive, MaxOpenCreates, {TRUE}, {PROCESS_STACK_SIZE})
    \/ SysYield
    \/ SysOpen(KbdMinors)
    \/ SysClose({0, 1})
    \/ ~IsRoot /\ SysStop
    \/ TimerInt({})

SpecOpen == Init /\ [][NextOpen]_vars

\* the descriptors of live processes that refer to a keyboard device
OpenFds(table) ==
    {sf \in Slots \X (0 .. (FD_TABLE_SIZE - 1)) :
        /\ table[sf[1]].state # "STOPPED"
        /\ table[sf[1]].fd_table[sf[2]] \in KbdMinors}

OpenCall == evt'.op = "open" /\ evt'.ret.name = "open"
CloseCall == evt'.op = "close" /\ evt'.ret.name = "close"

\* sysopen of a keyboard minor while a descriptor is open returns -1
OpenRefused ==
    (OpenCall /\ OpenFds(pcb_table) # {}) =>
        /\ evt'.ret.result_code = -1
        /\ OpenFds(pcb_table') = OpenFds(pcb_table)

\* the holder's sysclose releases the keyboard
CloseReleases ==
    (CloseCall /\ <<current_proc, evt'.args[1]>> \in OpenFds(pcb_table)) =>
        /\ evt'.ret.result_code = 0
        /\ OpenFds(pcb_table') = {}
        /\ kbd'.kbd_proc = NULLP

\* sysopen of a released keyboard succeeds
OpenSucceeds ==
    (OpenCall /\ kbd.kbd_proc = NULLP) =>
        /\ evt'.ret.result_code \in 0 .. (FD_TABLE_SIZE - 1)
        /\ OpenFds(pcb_table') = {<<current_proc, evt'.ret.result_code>>}

\* C17: at any time at most one file descriptor in the system refers to a
\* keyboard device: sysopen of either minor by any process returns -1
\* while a descriptor is open, and succeeds again after the holder's
\* sysclose.
C17_OneKeyboardFd ==
    /\ [](Cardinality(OpenFds(pcb_table)) <= 1)
    /\ [][OpenRefused /\ CloseReleases /\ OpenSucceeds]_vars

\* an open that succeeds after another process held and closed the keyboard
C17_Witness ==
    /\ evt.op = "open" /\ evt.ret.name = "open"
    /\ evt.ret.result_code = 0
    /\ Cardinality(OpenFds(pcb_table)) = 1
    /\ kbd.kbd_proc = current_proc
    /\ current_proc # 0
    /\ kbd.released

(* ------------------------------------------------------------------ *)
(* Process creation (SpecCreate)                                        *)
(* ------------------------------------------------------------------ *)
\* The system has run for a while: the root process has created
\* BootChildren children one after the other, and each has run and blocked
\* in a receive from the root process.
BootChildren == 29
RECURSIVE Filled(_, _)
Filled(k, n) ==
    IF n = 0 THEN k
    ELSE LET root_pid == k.pcb_table[k.current_proc].pid
             k1 == StepRecv(StepYield(StepCreate(k, TRUE, PROCESS_STACK_SIZE)),
                            root_pid, TRUE, TRUE)
         IN IF k1.panic THEN k1 ELSE Filled(k1, n - 1)

InitCreate == InitFrom(Filled(KBoot, BootChildren))

\* creation is tried with up to PCB_TABLE_SIZE live processes
MaxCreateLive == 33
MaxCreateCreates == 5
\* a stack that fits once in the memory of the machine
BigStack == 1500000
CreateStacks == {0, BigStack}
\* The root process creates with valid and invalid entry points, small and
\* large stacks; the processes it creates now yield and stop.
NextCreate ==
    \/ IsRoot /\ SysCreate(MaxCreateLive, MaxCreateCreates, BOOLEAN, CreateStacks)
    \/ SysYield
    \/ ~IsRoot /\ SysStop

SpecCreate == InitCreate /\ [][NextCreate]_vars

CreateCall == evt'.op = "create" /\ evt'.ret.name = "create"
\* the bytes create asks the allocator for, header included
StackBlock(stack) ==
    round_up_to_paragraph(IF stack < PROCESS_STACK_SIZE THEN PROCESS_STACK_SIZE ELSE stack)
        + HEADER_SIZE
HasRoom(stack) ==
    \E i \in 1 .. Len(mem.free_list) : mem.free_list[i].size >= StackBlock(stack)
CanCreate ==
    /\ evt'.args[1]
    /\ Cardinality(Live(K)) < PCB_TABLE_SIZE
    /\ HasRoom(evt'.args[2])

\* the new process: its PID is returned, it is Ready at priority 3 at the
\* tail of its ready queue, on a stack of at least PROCESS_STACK_SIZE
CreateSucceeds ==
    LET pid == evt'.ret.result_code IN
    /\ pid >= 1
    /\ \E s \in Slots \ Live(K) :
          /\ pcb_table'[s].pid = pid
          /\ pcb_table'[s].state = "READY"
          /\ pcb_table'[s].priority = INIT_PRIORITY
          /\ ready_queues'[INIT_PRIORITY] = Append(ready_queues[INIT_PRIORITY], s)
          /\ [addr |-> pcb_table'[s].mem_start - HEADER_SIZE,
              size |-> StackBlock(evt'.args[2])] \in mem'.used
          /\ \A o \in Slots \ {s, current_proc} : pcb_table'[o] = pcb_table[o]
    /\ user_proc_count' = user_proc_count + 1

\* nothing but the caller's result changes
CreateFails ==
    /\ evt'.ret.result_code = -1
    /\ [pcb_table' EXCEPT ![current_proc].result_code = pcb_table[current_proc].result_code]
          = pcb_table
    /\ UNCHANGED <<ready_queues, stopped_queue, receive_any_queue, sleep_queue,
                   current_proc, user_proc_count, mem>>

\* C18: syscreate with a valid entry point, a free PCB and stack memory
\* returns the PID (>= 1) of the new process, which is Ready at priority 3
\* at the tail of its ready queue, a stack size below PROCESS_STACK_SIZE
\* being promoted; with an invalid entry point, with 32 live processes or
\* with no stack memory it returns -1 and leaves the PCB table, the stored
\* PIDs, the queues, the process count and the allocated memory unchanged.
C18_CreateContract ==
    [][CreateCall => IF CanCreate THEN CreateSucceeds ELSE CreateFails]_vars

\* a create with a valid entry point refused because 32 processes are live
C18_Witness ==
    /\ evt.op = "create" /\ evt.ret.name = "create"
    /\ evt.args[1]
    /\ evt.ret.result_code = -1
    /\ Cardinality(Live(K)) = PCB_TABLE_SIZE

(* ------------------------------------------------------------------ *)
(* Waiting for a process to terminate (SpecWait)                        *)
(* ------------------------------------------------------------------ *)
MaxWaitLive == 3
MaxWaitCreates == 3
\* PID 0 is the idle process; PID 1 is never given to a process
NoPids == {0, 1}
\* The root process creates the others; every process waits on live,
\* terminated and nonexistent PIDs and on itself, yields and stops.
NextWait ==
    \/ IsRoot /\ SysCreate(MaxWaitLive, MaxWaitCreates, {TRUE}, {PROCESS_STACK_SIZE})
    \/ SysYield
    \/ SysWait(LivePids \cup dead_pids \cup NoPids)
    \/ SysStop
    \/ TimerInt({})

SpecWait == Init /\ [][NextWait]_vars

CallerPid == IF current_proc = IDLE THEN IDLE_PROC_PID ELSE pcb_table[current_proc].pid

\* syswait(pid) by the current process
WaitCall(pid) == evt'.op = "wait" /\ evt'.args = <<pid>>

\* a wait on a live process other than the caller blocks the caller at the
\* tail of that process's waiter queue
WaitBlocks ==
    \A pid \in LivePids \ {CallerPid} :
        WaitCall(pid) =>
            LET cur == current_proc
                tgt == CHOOSE s \in Live(K) : pcb_table[s].pid = pid
            IN /\ pcb_table'[cur].state = "BLOCKED"
               /\ pcb_table'[cur].blocked_queue = "WAIT"
               /\ pcb_table'[cur].blocked_on = tgt
               /\ pcb_table'[tgt].blocked_queues["WAIT"]
                     = Append(pcb_table[tgt].blocked_queues["WAIT"], cur)
               /\ current_proc' # cur

\* any other wait returns -1 at once
WaitRefused ==
    \A pid \in (dead_pids \cup NoPids \cup {CallerPid})
                  \ (LivePids \ {CallerPid}) :
        WaitCall(pid) =>
            /\ current_proc' = current_proc
            /\ pcb_table'[current_proc].state = "RUNNING"
            /\ evt'.ret.name = "wait" /\ evt'.ret.proc = current_proc
            /\ evt'.ret.why = <<>>
            /\ evt'.ret.result_code = -1

WaitPending(call) == call.name = "wait" /\ call.why = <<>>

\* a process stays in its wait as long as the process waited on lives
WaitsWhileAlive ==
    \A s \in Slots :
        (ucall[s] # <<>> /\ WaitPending(ucall[s][Len(ucall[s])])) =>
            /\ pcb_table[s].state = "BLOCKED"
            /\ pcb_table[s].blocked_queue = "WAIT"
            /\ pcb_table[pcb_table[s].blocked_on].state # "STOPPED"
            /\ pcb_table[pcb_table[s].blocked_on].pid = ucall[s][Len(ucall[s])].args[1]

\* a wait that blocked returns 0, after the process waited on terminated
WaitReturns ==
    (evt.ret.name = "wait" /\ evt.ret.why # <<>>) =>
        /\ evt.ret.why = <<"term">>
        /\ evt.ret.result_code = 0
        /\ evt.ret.args[1] \in dead_pids

\* C19: syswait(pid) on a live process other than the caller blocks the
\* caller until that process terminates and then returns 0; syswait on a
\* nonexistent PID, on PID 0 or on the caller's own PID returns -1 without
\* blocking.
C19_Wait ==
    /\ [](WaitsWhileAlive /\ WaitReturns)
    /\ [][WaitBlocks /\ WaitRefused]_vars

\* a wait has returned 0 after the process waited on stopped
C19_Witness ==
    /\ evt.ret.name = "wait"
    /\ evt.ret.why = <<"term">>
    /\ evt.ret.result_code = 0
    /\ evt.ret.args[1] \in dead_pids

(* ------------------------------------------------------------------ *)
(* The queues of a terminating process (SpecDrain)                      *)
(* ------------------------------------------------------------------ *)
MaxDrainLive == 4
MaxDrainCreates == 3
DrainWords == {7}
RootPid == {pcb_table[0].pid}
\* The root process creates the others, yields and stops; the others send
\* to it, receive from it and wait on it.
NextDrain ==
    \/ IsRoot /\ SysCreate(MaxDrainLive, MaxDrainCreates, {TRUE}, {PROCESS_STACK_SIZE})
    \/ IsRoot /\ SysYield
    \/ IsRoot /\ SysStop
    \/ ~IsRoot /\ SysSend(RootPid, DrainWords)
    \/ ~IsRoot /\ SysRecv(RootPid, {TRUE})
    \/ ~IsRoot /\ SysWait(RootPid)

SpecDrain == Init /\ [][NextDrain]_vars

\* the current process stops: every resident of its queue q is made ready
\* with result r and the queue is left empty
Drained(q, r) ==
    LET cur == current_proc
        residents == pcb_table[cur].blocked_queues[q]
    IN /\ \A i \in 1 .. Len(residents) :
             /\ pcb_table'[residents[i]].state \in {"READY", "RUNNING"}
             /\ pcb_table'[residents[i]].result_code = r
       /\ pcb_table'[cur].blocked_queues[q] = <<>>

StopCall == current_proc # IDLE /\ evt'.op = "stop"

\* C20 as stated: the residents of the Waiter queue are woken with -1,
\* like those of the Sender and Receiver queues, and the three queues are
\* left empty.
C20_WaitersWokenFailed ==
    [][StopCall => Drained("SENDER", -1) /\ Drained("RECEIVER", -1)
                      /\ Drained("WAIT", -1)]_vars

\* C20: when a process terminates, the residents of its Sender and
\* Receiver queues are woken with -1 and the residents of its Waiter queue
\* with 0, and the three queues are left empty.
C20_QueuesDrained ==
    [][StopCall => Drained("SENDER", -1) /\ Drained("RECEIVER", -1)
                      /\ Drained("WAIT", 0)]_vars

\* the root process has stopped with a resident in each of its queues
C20_Witness ==
    /\ evt.op = "stop"
    /\ {t[2] : t \in {evt.term[i] : i \in 1 .. Len(evt.term)}}
          = {"SENDER", "RECEIVER", "WAIT"}
    /\ \A q \in BlockedQueueIds : pcb_table[0].blocked_queues[q] = <<>>

(* ------------------------------------------------------------------ *)
(* Receive-any by the only process (Spec)                               *)
(* ------------------------------------------------------------------ *)
InReceiveAny(s) ==
    pcb_table[s].state = "BLOCKED" /\ pcb_table[s].blocked_queue = "RECEIVE_ANY"

\* a receive-any by the only live user process returns -10 at once
OnlyReceiverRefused ==
    (evt'.op = "recv" /\ evt'.args[1] = 0 /\ Live(K) = {current_proc}) =>
        /\ current_proc' = current_proc
        /\ pcb_table'[current_proc].state = "RUNNING"
        /\ receive_any_queue' = receive_any_queue
        /\ evt'.ret.name = "recv" /\ evt'.ret.proc = current_proc
        /\ evt'.ret.why = <<>>
        /\ evt'.ret.result_code = -10

\* the last other process stops while r is blocked in receive-any
LastOtherStops(r) ==
    /\ evt'.op = "stop"
    /\ Live(K) = {current_proc, r} /\ r # current_proc
    /\ InReceiveAny(r)

OnlyReceiverWoken ==
    \A r \in Slots :
        LastOtherStops(r) =>
            /\ receive_any_queue' = <<>>
            /\ pcb_table'[r].state = "RUNNING"
            /\ current_proc' = r
            /\ evt'.ret.name = "recv" /\ evt'.ret.proc = r
            /\ evt'.ret.result_code = -10

\* C21: a receive-any sysrecv issued by the only live user process returns
\* -10 without blocking, and a process blocked in receive-any when the
\* last other user process terminates is taken off the receive-any queue
\* and its sysrecv returns -10.
C21_OnlyProcess == [][OnlyReceiverRefused /\ OnlyReceiverWoken]_vars

\* the last other process has stopped and the receiver was woken with -10
C21_Witness ==
    /\ evt.op = "stop"
    /\ evt.ret.name = "recv" /\ evt.ret.why = <<"only">>
    /\ evt.ret.result_code = -10
    /\ Live(K) = {evt.ret.proc}

(* ------------------------------------------------------------------ *)
(* The result of syssleep (SpecNap)                                     *)
(* ------------------------------------------------------------------ *)
MaxNapLive == 2
MaxNapCreates == 2
NapMs == {0, 10, 20}
\* Every process asks for its PID, yields, stops and sleeps, for no time
\* at all too; no signal is sent.
NextNap ==
    \/ IsRoot /\ SysCreate(MaxNapLive, MaxNapCreates, {TRUE}, {PROCESS_STACK_SIZE})
    \/ SysGetPid
    \/ SysYield
    \/ ~IsRoot /\ SysStop
    \/ SysSleep(NapMs)
    \/ TimerInt({})

SpecNap == Init /\ [][NextNap]_vars

\* C22: a syssleep that no signal ends early returns 0, for every
\* ms >= 0; syssleep(0) returns 0 at once, whatever the caller's earlier
\* system calls returned.
C22_SleepReturnsZero ==
    /\ []((evt.ret.name = "sleep" /\ evt.ret.why \in {<<>>, <<"tick">>}) =>
              evt.ret.result_code = 0)
    /\ [][(evt'.op = "sleep" /\ evt'.args = <<0>>) =>
              /\ current_proc' = current_proc
              /\ evt'.ret.name = "sleep" /\ evt'.ret.proc = current_proc
              /\ evt'.ret.result_code = 0]_vars

(* ------------------------------------------------------------------ *)
(* Process statuses (SpecTimes)                                         *)
(* ------------------------------------------------------------------ *)
MaxTimesLive == 33
MaxTimesCreates == 3
\* a structure on the stack of the first process, one that starts in the
\* hole, one at the end of the hole and one that ends past the top of memory
ValidPs == freemem_aligned + HEADER_SIZE
PsAddrs == {ValidPs, HOLESTART, HOLEEND, maxaddr - 4}
\* The system has run for a while (InitCreate): BootChildren processes are
\* blocked.  The root process creates more; every running process asks for
\* the statuses and yields, and the new ones stop.
NextTimes ==
    \/ IsRoot /\ SysCreate(MaxTimesLive, MaxTimesCreates, {TRUE}, {PROCESS_STACK_SIZE})
    \/ SysGetCpuTimes(PsAddrs)
    \/ SysYield
    \/ ~IsRoot /\ SysStop

SpecTimes == InitCreate /\ [][NextTimes]_vars

\* the n-th non-stopped PCB, counting from 0 in table order
RECURSIVE NthLive(_, _)
NthLive(n, from) ==
    IF pcb_table[from].state # "STOPPED"
    THEN IF n = 0 THEN from ELSE NthLive(n - 1, from + 1)
    ELSE NthLive(n, from + 1)

TimesCall(addr) == evt.op = "getcputimes" /\ evt.args = <<addr>> /\ evt.ret.name = "getcputimes"

\* the table filled for the live processes and the idle process
TableFilled ==
    LET n == Cardinality(Live(K)) IN
    /\ evt.ret.result_code = n
    /\ n \in 0 .. (PCB_TABLE_SIZE - 1)
    /\ DOMAIN ps \subseteq 0 .. (ps_words - 1)
    /\ \A j \in 0 .. (n - 1) :
          LET s == NthLive(j, 0) IN
          /\ ps[ps_cell(0, j)] = pcb_table[s].pid
          /\ ps[ps_cell(1, j)] = IF s = current_proc THEN state_code("RUNNING")
                                 ELSE state_code(pcb_table[s].state)
    /\ ps[ps_cell(0, n)] = IDLE_PROC_PID

\* C23: sysgetcputimes with a valid address fills one entry for each
\* non-stopped PCB (the caller as Running) and then one for the idle
\* process, and returns the index of the last entry used, which lies in
\* 0..31 for every number of live processes, no word being written outside
\* the structure; it returns -1 for an address in the hole and -2 for a
\* structure that extends past the end of memory.
C23_CpuTimes ==
    /\ TimesCall(ValidPs) => TableFilled
    /\ (TimesCall(HOLESTART) \/ TimesCall(HOLEEND)) => evt.ret.result_code = -1
    /\ TimesCall(maxaddr - 4) => evt.ret.result_code = -2

(* ------------------------------------------------------------------ *)
(* Calls refused for their arguments (SpecArgs)                         *)
(* ------------------------------------------------------------------ *)
MaxArgLive == 2
MaxArgCreates == 1
ArgWords == {1}
ArgSigs == {-1, 3, 32}
\* The root process sends to, receives from, waits on and signals live,
\* terminated and nonexistent PIDs and itself, with good and bad pointers
\* and signal numbers; the other process sends to it, yields and stops.
ArgPids == LivePids \cup dead_pids \cup {0}
NextArgs ==
    \/ IsRoot /\ SysCreate(MaxArgLive, MaxArgCreates, {TRUE}, {PROCESS_STACK_SIZE})
    \/ SysYield
    \/ ~IsRoot /\ SysStop
    \/ ~IsRoot /\ SysSend(RootPid, ArgWords)
    \/ IsRoot /\ SysSend(ArgPids, ArgWords)
    \/ IsRoot /\ SysRecv(ArgPids, BOOLEAN)
    \/ IsRoot /\ SysWait(ArgPids)
    \/ IsRoot /\ SysKill(ArgPids, ArgSigs)

SpecArgs == Init /\ [][NextArgs]_vars

Others == LivePids \ {CallerPid}

\* the code documented for the call the step makes if its arguments are
\* refused, 0 if they are not (or the step is no such call)
Refusal ==
    LET a == evt'.args IN
    CASE evt'.op = "send" ->
           IF a[1] = CallerPid THEN -3 ELSE IF a[1] \notin Others THEN -2 ELSE 0
      [] evt'.op = "recv" ->
           IF ~a[2] THEN -5 ELSE IF ~a[3] THEN -4
           ELSE IF a[1] = CallerPid THEN -3
           ELSE IF a[1] # 0 /\ a[1] \notin Others THEN -2 ELSE 0
      [] evt'.op = "wait" -> IF a[1] \notin Others THEN -1 ELSE 0
      [] evt'.op = "kill" ->
           IF a[1] \notin LivePids THEN -514
           ELSE IF a[2] \notin 0 .. (SIGNAL_TABLE_SIZE - 1) THEN -583 ELSE 0
      [] OTHER -> 0

\* the caller gets the code and keeps running; the queues are unchanged
RefusedCall ==
    /\ evt'.ret.proc = current_proc /\ evt'.ret.name = evt'.op
    /\ evt'.ret.result_code = Refusal
    /\ UNCHANGED <<ready_queues, stopped_queue, receive_any_queue, sleep_queue,
                   current_proc, idle_proc, user_proc_count, mem, kbd>>

\* C24 as stated: a refused syssend, sysrecv, syswait or syskill returns its
\* documented code and changes nothing in the kernel but the caller's
\* result_code.
C24_NothingButResult ==
    [][Refusal # 0 =>
          /\ RefusedCall
          /\ pcb_table' = [pcb_table EXCEPT ![current_proc].result_code = Refusal]]_vars

\* C24: a refused syssend, sysrecv, syswait or syskill returns its
\* documented code and changes nothing in the kernel but the caller's
\* result_code and, for syssend and sysrecv, the caller's record of the
\* arguments of its last message call (ipc_args): the caller stays the
\* running process, and every queue, PCB state, other PCB field and
\* pending-signal mask is unchanged.
C24_RefusedCalls ==
    [][Refusal # 0 =>
          /\ RefusedCall
          /\ pcb_table' = [pcb_table EXCEPT
                              ![current_proc].result_code = Refusal,
                              ![current_proc].ipc_args =
                                  IF evt'.op \in {"send", "recv"}
                                  THEN pcb_table'[current_proc].ipc_args ELSE @]]_vars

\* a receive with a good from pointer and a bad buffer pointer was refused
C24_Witness ==
    /\ evt.op = "recv" /\ evt.ret.name = "recv"
    /\ evt.args[2] /\ ~evt.args[3]
    /\ evt.ret.result_code = -4

(* ------------------------------------------------------------------ *)
(* The signal handler table (SpecHandlers)                              *)
(* ------------------------------------------------------------------ *)
MaxHandlerLive == 2
MaxHandlerCreates == 1
\* an address valid_ptr() refuses
H_WILD == "wild"
TableSigs == {-1, 0, 30, 31, 32}
TableHandlers == {H_NULL, H_USER, H_SYSSTOP, H_WILD}
\* The root process installs, replaces and removes handlers beside a child,
\* with signal numbers in and out of range, good and bad handler addresses
\* and good and bad old pointers; a handler's address is refused iff it is
\* the wild one.
SysSigHandlerAt ==
    /\ UserRuns
    /\ \E sig \in TableSigs, h \in TableHandlers, old_ok \in BOOLEAN :
          Commit(StepSigHandler(K, sig, h, h # H_WILD, old_ok))
NextHandlers ==
    \/ IsRoot /\ SysCreate(MaxHandlerLive, MaxHandlerCreates, {TRUE}, {PROCESS_STACK_SIZE})
    \/ SysYield
    \/ IsRoot /\ SysSigHandlerAt

SpecHandlers == Init /\ [][NextHandlers]_vars

\* the code documented for a syssighandler call with arguments a
HandlerCode(a) ==
    IF a[1] < 0 \/ a[1] >= 31 THEN -1
    ELSE IF a[2] # H_NULL /\ ~a[3] THEN -2
    ELSE IF ~a[4] THEN -3 ELSE 0

\* the step is a syssighandler call and it does what is documented
HandlerContract ==
    LET a == evt'.args
        cur == current_proc
        table == pcb_table[cur].signal_table
    IN /\ evt'.ret.proc = cur /\ evt'.ret.name = "sighandler"
       /\ evt'.ret.result_code = HandlerCode(a)
       /\ \A s \in Slots \ {cur} :
             pcb_table'[s].signal_table = pcb_table[s].signal_table
       /\ IF HandlerCode(a) # 0
          THEN pcb_table'[cur].signal_table = table
          ELSE /\ pcb_table'[cur].signal_table = [table EXCEPT ![a[1]] = a[2]]
               /\ umem'[cur].old_handler = table[a[1]]

\* sighandler(s, h, &old); sighandler(s, old, &h2) made by the current
\* process in this state
HandlerRoundTrip(s, h) ==
    LET cur == current_proc
        k1 == service_syssighandler(K, s, h, h # H_WILD, TRUE)
        old == k1.umem[cur].old_handler
        k2 == service_syssighandler(k1, s, old, old # H_WILD, TRUE)
    IN /\ k1.pcb_table[cur].result_code = 0
       /\ k2.pcb_table[cur].result_code = 0
       /\ k2.pcb_table[cur].signal_table = pcb_table[cur].signal_table
       /\ k2.umem[cur].old_handler = h

\* C25: syssighandler(sig, new, &old) returns -1 if sig < 0 or sig >= 31,
\* else -2 if new is non-null and not a valid address, else -3 if old is not
\* a valid address, and leaves the handler table unchanged in these cases; on
\* success it returns 0, stores the previous handler in *old and installs
\* new; from every state the pair sighandler(s, h, &old);
\* sighandler(s, old, &h2) restores the table and yields h2 = h.
C25_HandlerTable ==
    [][/\ evt'.op = "sighandler" => HandlerContract
       /\ UserRuns =>
             \A s \in TableSigs \cap (0 .. 30), h \in TableHandlers \ {H_WILD} :
                HandlerRoundTrip(s, h)]_vars

\* a handler was replaced and the call reported the one it replaced, and an
\* earlier call of the process had installed that one
C25_Witness ==
    /\ evt.op = "sighandler" /\ evt.ret.name = "sighandler"
    /\ evt.ret.result_code = 0
    /\ evt.args[2] = H_SYSSTOP
    /\ umem[evt.ret.proc].old_handler = H_USER
    /\ pcb_table[evt.ret.proc].signal_table[evt.args[1]] = H_SYSSTOP

(* ------------------------------------------------------------------ *)
(* File descriptors (SpecFd)                                            *)
(* ------------------------------------------------------------------ *)
MaxFdLive == 2
MaxFdCreates == 1
FdDevs == {-1, 0, 1, 2}
FdNums == {-1, 0, 1, 4}
\* user buffer addresses: a null pointer and a buffer of the process
FdBufs == {0, ValidPs}
FdLens == {5}
FdJunk == {0, 5}
\* The root process and its child open devices in and out of range and
\* close descriptors; the root process also reads, writes and controls
\* open, closed, never-opened and out-of-range descriptors.
NextFd ==
    \/ IsRoot /\ SysCreate(MaxFdLive, MaxFdCreates, {TRUE}, {PROCESS_STACK_SIZE})
    \/ SysYield
    \/ SysOpen(FdDevs)
    \/ SysClose(FdNums)
    \/ IsRoot /\ SysRead(FdNums, FdLens, {TRUE})
    \/ IsRoot /\ SysWrite(FdNums, FdBufs, FdLens, FdJunk)
    \/ IsRoot /\ SysIoctl(FdNums, {IOCTL_ECHO_ON}, {NULLP})

SpecFd == Init /\ [][NextFd]_vars

\* the free descriptors of the caller
FreeFds == {fd \in 0 .. 3 : pcb_table[current_proc].fd_table[fd] = NULLP}
IsOpenFd(fd) == fd \in (0 .. 3) \ FreeFds
LowestFree == CHOOSE fd \in FreeFds : \A g \in FreeFds : fd <= g

\* what sysopen(dev) is documented to return in this state
OpenResult(dev) ==
    IF dev \notin 0 .. 1 \/ FreeFds = {} \/ kbd.kbd_proc # NULLP THEN -1
    ELSE LowestFree

FdOpenContract ==
    LET table == pcb_table[current_proc].fd_table
        r == OpenResult(evt'.args[1])
    IN /\ evt'.ret.name = "open" /\ evt'.ret.result_code = r
       /\ pcb_table'[current_proc].fd_table =
             IF r = -1 THEN table ELSE [table EXCEPT ![r] = evt'.args[1]]

FdCloseContract ==
    LET table == pcb_table[current_proc].fd_table
        fd == evt'.args[1]
    IN /\ evt'.ret.name = "close"
       /\ IF IsOpenFd(fd)
          THEN /\ evt'.ret.result_code = 0
               /\ pcb_table'[current_proc].fd_table = [table EXCEPT ![fd] = NULLP]
          ELSE /\ evt'.ret.result_code = -1
               /\ pcb_table'[current_proc].fd_table = table

\* sysread, syswrite and sysioctl on a descriptor that is not open
FdRefused ==
    /\ evt'.ret.name = evt'.op /\ evt'.ret.proc = current_proc
    /\ evt'.ret.result_code = -1
    /\ pcb_table'[current_proc].state = "RUNNING"

\* C26: sysopen returns the lowest-numbered free descriptor of the caller in
\* 0..3, or -1 for a device number outside 0..1, a full fd table or a
\* refused device open, leaving the fd table unchanged; sysclose of an open
\* descriptor returns 0 and frees the entry; sysclose, sysread, syswrite and
\* sysioctl on a closed, never-opened or out-of-range descriptor return -1;
\* syswrite always returns -1, on an open keyboard too.
C26_Descriptors ==
    [][/\ evt'.op = "open" => FdOpenContract
       /\ evt'.op = "close" => FdCloseContract
       /\ (evt'.op \in {"read", "write", "ioctl"} /\ ~IsOpenFd(evt'.args[1])) => FdRefused
       /\ evt'.op = "write" => FdRefused]_vars

\* a write to the open keyboard was refused after the descriptor had been
\* closed and opened again
C26_Witness ==
    /\ evt.op = "write" /\ evt.ret.name = "write" /\ evt.ret.result_code = -1
    /\ evt.args[1] = 0 /\ evt.args[2] = ValidPs
    /\ pcb_table[evt.ret.proc].fd_table[0] # NULLP
    /\ kbd.released

(* ------------------------------------------------------------------ *)
(* Priorities (SpecPrio)                                                *)
(* ------------------------------------------------------------------ *)
MaxPrioLive == 2
MaxPrioCreates == 1
PrioArgs == {-2, -1, 0, 1, 2, 3, 4}
\* Two processes set and query their priorities with values in and out of
\* range, yield and are preempted; the child stops and is created again.
NextPrio ==
    \/ IsRoot /\ SysCreate(MaxPrioLive, MaxPrioCreates, {TRUE}, {PROCESS_STACK_SIZE})
    \/ SysYield
    \/ SysSetPrio(PrioArgs)
    \/ ~IsRoot /\ SysStop
    \/ TimerInt({})

SpecPrio == Init /\ [][NextPrio]_vars

\* the step is a syssetprio call and it does what is documented
SetPrioContract ==
    LET p == evt'.args[1]
        prio == pcb_table[current_proc].priority
    IN /\ evt'.ret.proc = current_proc /\ evt'.ret.name = "setprio"
       /\ evt'.ret.result_code = IF p \in (0 .. 3) \cup {-1} THEN prio ELSE -1
       /\ pcb_table'[current_proc].priority = IF p \in 0 .. 3 THEN p ELSE prio

\* the priority of a process changes in its own syssetprio calls only
PrioKept ==
    \A s \in Slots :
        (/\ pcb_table[s].state # "STOPPED"
         /\ pcb_table'[s].pid = pcb_table[s].pid
         /\ pcb_table'[s].priority # pcb_table[s].priority)
        => evt'.op = "setprio" /\ s = current_proc

\* a query that follows a query of the same process returns the same value
QueryRepeats ==
    (/\ evt.op = "setprio" /\ evt.ret.name = "setprio" /\ evt.args[1] = -1
     /\ evt'.op = "setprio" /\ evt'.args[1] = -1
     /\ evt.ret.proc = current_proc)
    => evt'.ret.result_code = evt.ret.result_code

\* C27: syssetprio(p) returns the caller's priority at the time of the call
\* and sets it to p when p is in 0..3; for p = -1 it returns the current
\* priority without changing it, so repeated setprio(-1) calls all return
\* the same value; for any other p it returns -1 and leaves the priority
\* unchanged.
C27_SetPrio ==
    [][/\ evt'.op = "setprio" => SetPrioContract
       /\ PrioKept
       /\ QueryRepeats]_vars

\* a process that had lowered its priority to 1 queried it: the query
\* returned 1 and the priority is still 1
C27_Witness ==
    /\ evt.op = "setprio" /\ evt.ret.name = "setprio" /\ evt.args[1] = -1
    /\ evt.ret.result_code = 1
    /\ pcb_table[evt.ret.proc].priority = 1

(* ------------------------------------------------------------------ *)
(* The queues and the PCB fields (SpecQueues)                           *)
(* ------------------------------------------------------------------ *)
MaxQueueLive == 3
MaxQueueCreates == 2
QueueWords == {7}
QueueSigs == {3}
QueuePrios == {1}
QueueMs == {20}
Alone == user_proc_count = 1
Lowered == current_proc # IDLE /\ pcb_table[current_proc].priority \in QueuePrios
\* Three processes. The root process installs a handler, lowers its
\* priority, then creates the others, receives from anyone, waits on a child and
\* sleeps; a child sends to and receives from the root process, signals it
\* and stops; the timer preempts and wakes.
NextQueues ==
    \/ IsRoot /\ Lowered /\ SysCreate(MaxQueueLive, MaxQueueCreates, {TRUE}, {PROCESS_STACK_SIZE})
    \/ \E sig \in QueueSigs :
          IsRoot /\ Alone /\ NoHandlerYet(sig) /\ SysSigHandler({sig}, {H_USER}, {TRUE})
    \/ IsRoot /\ Alone /\ ~Lowered /\ (\A sig \in QueueSigs : ~NoHandlerYet(sig))
          /\ SysSetPrio(QueuePrios)
    \/ IsRoot /\ InProgram /\ SysRecv({0}, {TRUE})
    \/ IsRoot /\ InProgram /\ SysWait(OtherPids)
    \/ IsRoot /\ InProgram /\ SysSleep(QueueMs)
    \/ ~IsRoot /\ SysSend(RootPid, QueueWords)
    \/ ~IsRoot /\ SysRecv(RootPid, {TRUE})
    \/ ~IsRoot /\ SysKill(RootPid, QueueSigs)
    \/ ~IsRoot /\ SysStop
    \/ SysSigReturn
    \/ TimerInt({})

SpecQueues == Init /\ [][NextQueues]_vars

\* the residents of the Sender, Receiver and Waiter queues of slots 0 .. n
RECURSIVE AllBlocked(_)
AllBlocked(n) ==
    IF n < 0 THEN <<>>
    ELSE AllBlocked(n - 1) \o pcb_table[n].blocked_queues["SENDER"]
                           \o pcb_table[n].blocked_queues["RECEIVER"]
                           \o pcb_table[n].blocked_queues["WAIT"]

RECURSIVE AllReady(_)
AllReady(i) == IF i < 0 THEN <<>> ELSE AllReady(i - 1) \o ready_queues[i]

\* every queue of the kernel, one after the other
Residents ==
    AllReady(NUM_PRIORITIES - 1) \o stopped_queue \o sleep_queue
        \o receive_any_queue \o AllBlocked(PCB_TABLE_SIZE - 1)

\* C28: each PCB is a member of at most one of the ready queues, the stopped
\* queue, the Sender, Receiver and Waiter queues of the processes, the sleep
\* delta list and the receive-any queue, and no queue holds a PCB twice: no
\* PCB occurs twice among the residents of all queues.
C28_OneQueue ==
    /\ Cardinality(SeqToSet(Residents)) = Len(Residents)
    /\ SeqToSet(Residents) \subseteq Slots

\* C29: between dispatcher iterations the current process, if it is not the
\* idle process, has state Running and is on no queue, and no other PCB of
\* the table has state Running.
C29_OneRunning ==
    ~panic =>
       /\ current_proc # IDLE =>
             /\ pcb_table[current_proc].state = "RUNNING"
             /\ current_proc \notin SeqToSet(Residents)
       /\ \A s \in Slots \ {current_proc} : pcb_table[s].state # "RUNNING"

OnReady(proc) == \E i \in 0 .. (NUM_PRIORITIES - 1) : proc \in SeqToSet(ready_queues[i])

FieldsAgree(proc) ==
    LET p == pcb_table[proc] IN
    /\ OnReady(proc) <=> p.state = "READY"
    /\ \A i \in 0 .. (NUM_PRIORITIES - 1) :
          proc \in SeqToSet(ready_queues[i]) =>
             p.priority = i /\ p.blocked_queue = "NONE"
    /\ \A X \in Slots : \A q \in BlockedQueueIds :
          proc \in SeqToSet(pcb_table[X].blocked_queues[q]) <=>
             (p.state = "BLOCKED" /\ p.blocked_on = X /\ p.blocked_queue = q)
    /\ proc \in SeqToSet(sleep_queue) <=>
          (p.state = "BLOCKED" /\ p.blocked_queue = "SLEEP")
    /\ proc \in SeqToSet(receive_any_queue) <=>
          (p.state = "BLOCKED" /\ p.blocked_queue = "RECEIVE_ANY")
    /\ proc \in SeqToSet(stopped_queue) <=> p.state = "STOPPED"
    /\ p.state = "STOPPED" =>
          \A q \in BlockedQueueIds : p.blocked_queues[q] = <<>>

\* C30: queue membership agrees with the PCB fields: a PCB is on ready queue
\* p iff its state is Ready, and then its priority is p and its
\* blocked_queue is NONE; it is on X's Sender, Receiver or Waiter queue iff
\* it is Blocked with blocked_on = X and the matching blocked_queue; it is on
\* the delta list iff it is Blocked with blocked_queue SLEEP, on the
\* receive-any queue iff it is Blocked with blocked_queue RECEIVE_ANY, on the
\* stopped queue iff it is Stopped; the Sender, Receiver and Waiter queues of
\* a Stopped PCB are empty.
C30_FieldsAgree == \A proc \in Slots : FieldsAgree(proc)

\* the idle process runs while the root process sleeps, one child is on its
\* Sender queue and the other on its Receiver queue
C28_Witness ==
    /\ current_proc = IDLE
    /\ sleep_queue = <<0>>
    /\ Len(pcb_table[0].blocked_queues["SENDER"]) = 1
    /\ Len(pcb_table[0].blocked_queues["RECEIVER"]) = 1
    /\ Len(stopped_queue) = PCB_TABLE_SIZE - 3

\* next() has picked a child: it runs while the root process is Blocked and
\* the other child is Ready
C29_Witness ==
    /\ ~panic /\ evt.next
    /\ current_proc \in Slots \ {0}
    /\ pcb_table[current_proc].state = "RUNNING"
    /\ pcb_table[0].state = "BLOCKED"
    /\ \E s \in Slots : pcb_table[s].state = "READY"

\* the root process is Ready on the queue of the priority it chose, a child
\* is Blocked on its Sender queue and the other child runs
C30_Witness ==
    /\ ready_queues[1] = <<0>>
    /\ \E s \in Slots :
          /\ pcb_table[s].state = "BLOCKED" /\ pcb_table[s].blocked_on = 0
          /\ pcb_table[s].blocked_queue = "SENDER"
          /\ pcb_table[0].blocked_queues["SENDER"] = <<s>>
    /\ current_proc \in Slots

(* ------------------------------------------------------------------ *)
(* Returning from handlers (SpecNest)                                   *)
(* ------------------------------------------------------------------ *)
NestSigs == {1, 30}
\* The programs: the root process installs handlers for 1 and 30, signals
\* itself from its program and from its handlers, and yields; its child
\* signals it too.
NextNest ==
    \/ IsRoot /\ SysCreate(MaxSigLive, MaxSigCreates, {TRUE}, {PROCESS_STACK_SIZE})
    \/ SysYield
    \/ \E sig \in NestSigs :
          IsRoot /\ NoHandlerYet(sig) /\ SysSigHandler({sig}, {H_USER}, {TRUE})
    \/ SysKill(RootPid, NestSigs)
    \/ SysSigReturn

SpecNest == Init /\ [][NextNest]_vars

\* the signals of the set above level, and the highest of a non-empty set
Above(sigs, level) == {s \in sigs : s > level}
Highest(sigs) == CHOOSE s \in sigs : \A r \in sigs : r <= s

\* the step is the syssigreturn of the current process: the level saved in
\* the frame is restored, and a pending signal above it is dispatched before
\* the process resumes
LevelRestored ==
    LET cur == current_proc
        fr == pcb_table[cur].frames
        level == fr[Len(fr)].last_signal_delivered
        held == Above(pcb_table[cur].pending_signals, level)
        after == pcb_table'[cur]
    IN /\ current_proc' = cur
       /\ Len(fr) = 1 => level = -1
       /\ IF held = {}
          THEN /\ evt'.deliv = <<>>
               /\ after.last_signal_delivered = level
               /\ after.frames = SubSeq(fr, 1, Len(fr) - 1)
               /\ after.pending_signals = pcb_table[cur].pending_signals
          ELSE /\ evt'.deliv = <<cur, Highest(held), level>>
               /\ after.last_signal_delivered = Highest(held)
               /\ Len(after.frames) = Len(fr)
               /\ SubSeq(after.frames, 1, Len(fr) - 1) = SubSeq(fr, 1, Len(fr) - 1)
               /\ after.frames[Len(fr)].last_signal_delivered = level
               /\ after.pending_signals = pcb_table[cur].pending_signals \ {Highest(held)}

\* the handler for 1 raises 30 on itself: the handler for 30 is entered on
\* top of it at once
RaisedInHandler ==
    (/\ evt'.op = "kill" /\ evt'.args = <<CallerPid, 30>>
     /\ pcb_table[current_proc].last_signal_delivered = 1
     /\ pcb_table[current_proc].signal_table[30] # H_NULL)
    => /\ current_proc' = current_proc
       /\ evt'.deliv = <<current_proc, 30, 1>>
       /\ pcb_table'[current_proc].frames =
             Append(pcb_table[current_proc].frames,
                    [handler |-> pcb_table[current_proc].signal_table[30],
                     last_signal_delivered |-> 1,
                     saved_result_code |-> 0])

\* the handler for 1 resumes when the handler for 30 on top of it returns,
\* and not before: while both run, every step of the process is taken in
\* the context of the handler for 30
InnerFirst ==
    (/\ current_proc # IDLE
     /\ pcb_table[current_proc].last_signal_delivered = 30
     /\ Len(pcb_table[current_proc].frames) = 2
     /\ Len(pcb_table'[current_proc].frames) < 2)
    => /\ evt'.op = "sigreturn"
       /\ pcb_table'[current_proc].last_signal_delivered = 1
       /\ Len(pcb_table'[current_proc].frames) = 1

\* C31: syssigreturn restores last_signal_delivered to the value it had
\* when the handler was dispatched (-1 once no handler is active), so a
\* pending signal held back behind the handler is dispatched at the first
\* resumption after the handler returns; with handlers for 1 and 30 where
\* the handler for 1 raises 30 on itself, the handler for 30 runs to
\* completion before the handler for 1 resumes.
C31_LevelRestored ==
    [][/\ evt'.op = "sigreturn" => LevelRestored
       /\ RaisedInHandler
       /\ InnerFirst]_vars

\* signal 1 was held back behind the handler for 30 and is dispatched as
\* that handler returns
C31_Witness ==
    /\ evt.op = "sigreturn"
    /\ evt.deliv = <<0, 1, -1>>
    /\ pcb_table[0].last_signal_delivered = 1
    /\ Len(pcb_table[0].frames) = 1

(* ------------------------------------------------------------------ *)
(* The result saved in a signal frame (SpecFrames)                      *)
(* ------------------------------------------------------------------ *)
FrameSigs == {3, 5}
FrameMs == {20}
FrameEAX == {7}
\* The programs: the root process installs handlers for 3 and 5, sleeps in
\* its program, and asks for its PID and yields in its program and in its
\* handlers; its child signals it; the timer interrupts it with 7 in eax.
NextFrames ==
    \/ IsRoot /\ SysCreate(MaxSigLive, MaxSigCreates, {TRUE}, {PROCESS_STACK_SIZE})
    \/ SysYield
    \/ \E sig \in FrameSigs :
          IsRoot /\ NoHandlerYet(sig) /\ SysSigHandler({sig}, {H_USER}, {TRUE})
    \/ ~IsRoot /\ SysKill(RootPid, FrameSigs)
    \/ IsRoot /\ SysGetPid
    \/ IsRoot /\ InProgram /\ SysSleep(FrameMs)
    \/ SysSigReturn
    \/ IsRoot /\ TimerInt(FrameEAX)
    \/ ~IsRoot /\ TimerInt({})

SpecFrames == Init /\ [][NextFrames]_vars

Front(s) == SubSeq(s, 1, Len(s) - 1)

\* what a step does to the frames of the process in slot s
FrameStep(s) ==
    LET f == pcb_table[s].frames
        g == pcb_table'[s].frames
        top == f[Len(f)]
    IN IF s = current_proc /\ evt'.op = "sigreturn"
       THEN \* the frame is dropped and its result restored, or handed on to
            \* the frame of a signal that was held back
            \/ /\ evt'.deliv = <<>>
               /\ g = Front(f)
               /\ pcb_table'[s].result_code = top.saved_result_code
            \/ /\ evt'.deliv # <<>> /\ evt'.deliv[1] = s
               /\ Len(g) = Len(f) /\ Front(g) = Front(f)
               /\ g[Len(g)].saved_result_code = top.saved_result_code
               /\ pcb_table'[s].result_code = top.saved_result_code
       ELSE \* no change, or a frame is spliced that saves the result the
            \* process was about to see
            \/ g = f
            \/ /\ evt'.deliv # <<>> /\ evt'.deliv[1] = s
               /\ Len(g) = Len(f) + 1 /\ Front(g) = f
               /\ g[Len(g)].saved_result_code = pcb_table'[s].result_code

\* a step of the dispatcher other than a return from a handler leaves the
\* result of a process that is not its subject alone
ResultKept(s) ==
    (s # current_proc /\ evt'.woken = <<>> /\ evt'.match = <<>> /\ evt'.sig = <<>>)
    => pcb_table'[s].result_code = pcb_table[s].result_code

\* C32: signal delivery does not change the value a process observes as the
\* result of its interrupted system call or as its eax at an interrupt: a
\* spliced frame saves the result_code the process was about to resume
\* with, nothing the handler does changes a saved frame, nested or not, and
\* syssigreturn resumes the process with the result saved in the frame it
\* drops.
C32_ResultRestored ==
    [][\A s \in Slots :
          (pcb_table[s].state # "STOPPED" /\ pcb_table'[s].state # "STOPPED")
          => FrameStep(s) /\ ResultKept(s)]_vars

\* the handler asked for the PID (1) after the timer had interrupted the
\* program with 7 in eax, and its return puts 7 back
C32_Witness ==
    /\ evt.op = "sigreturn" /\ evt.deliv = <<>>
    /\ pcb_table[0].frames = <<>>
    /\ pcb_table[0].result_code = 7
    /\ evt.ret.proc = 0

(* ------------------------------------------------------------------ *)
(* Handlers set back to null (SpecNull)                                 *)
(* ------------------------------------------------------------------ *)
NullSigs == {18, 20}
\* a trampoline was given a null handler: the call of address 0 is not
\* followed further
NullSpliced ==
    \E s \in Slots :
        /\ pcb_table[s].state # "STOPPED"
        /\ \E i \in 1 .. Len(pcb_table[s].frames) : pcb_table[s].frames[i].handler = H_NULL
\* The programs: the root process installs handlers and sets them back to
\* null, in its program and in its handlers (as the shell's alarm handler
\* does); it and its child signal it.
NextNull ==
    \/ ~NullSpliced /\ IsRoot
          /\ SysCreate(MaxSigLive, MaxSigCreates, {TRUE}, {PROCESS_STACK_SIZE})
    \/ ~NullSpliced /\ SysYield
    \/ ~NullSpliced /\ IsRoot /\ SysSigHandler(NullSigs, {H_USER, H_NULL}, {TRUE})
    \/ ~NullSpliced /\ SysKill(RootPid, NullSigs)
    \/ ~NullSpliced /\ SysSigReturn
    \/ ~NullSpliced /\ TimerInt({})

SpecNull == Init /\ [][NextNull]_vars

\* C33: the kernel never splices a signal frame whose handler pointer is
\* null: no frame of a live process holds a null handler, and a signal
\* dispatched in a step is dispatched to the non-null handler the table
\* holds for it.
C33_NoNullHandler ==
    /\ ~NullSpliced
    /\ (evt.deliv # <<>>) =>
          pcb_table[evt.deliv[1]].signal_table[evt.deliv[2]] # H_NULL

(* ------------------------------------------------------------------ *)
(* The owner of the keyboard (SpecOwner)                                *)
(* ------------------------------------------------------------------ *)
MaxOwnerKeys == 2
OwnerReadLens == {2}
OwnerSigs == {31}
\* The programs: the child opens the keyboard, reads and stops; the root
\* process creates it, terminates it with signal 31 and opens the keyboard
\* itself; keys are pressed.
NextOwner ==
    \/ IsRoot /\ SysCreate(MaxSigLive, MaxSigCreates, {TRUE}, {PROCESS_STACK_SIZE})
    \/ SysYield
    \/ SysOpen(KbdMinors)
    \/ ~IsRoot /\ SysRead({0}, OwnerReadLens, {TRUE})
    \/ ~IsRoot /\ SysStop
    \/ IsRoot /\ SysKill(OtherPids, OwnerSigs)
    \/ KbdInt({NextKey}, {}, MaxOwnerKeys)
    \/ TimerInt({})

SpecOwner == Init /\ [][NextOwner]_vars

\* the live processes whose fd table holds the keyboard
Holders ==
    {s \in Slots :
        /\ pcb_table[s].state # "STOPPED"
        /\ \E fd \in 0 .. (FD_TABLE_SIZE - 1) : pcb_table[s].fd_table[fd] \in KbdMinors}

\* C34: whenever the keyboard driver records an owner, that owner is a
\* live, non-stopped process whose fd table holds the keyboard; so a sysopen
\* of the keyboard is refused only while a live process holds it, also
\* after a process has terminated with the keyboard open.
C34_OwnerLive ==
    /\ kbd.kbd_proc # NULLP => kbd.kbd_proc \in Holders
    /\ (/\ evt.op = "open" /\ evt.ret.name = "open"
        /\ evt.args[1] \in KbdMinors /\ evt.ret.result_code = -1)
       => Holders # {}

(* ------------------------------------------------------------------ *)
(* The shape of the delta list (SpecSleep)                              *)
(* ------------------------------------------------------------------ *)
\* The list is the sequence sleep_queue of its linked nodes, head first; its
\* size field is incremented with every node insert links and decremented
\* with every node poll and delta_remove unlink, so it is Len(sleep_queue).

\* the keys of the list after the step: none negative, the head's at least 1,
\* their sum through a node the ticks its sleeper has left, and the ticks
\* left never decreasing from the head to the tail
KeysAfter ==
    /\ \A i \in 1 .. Len(sleep_queue') : pcb_table'[sleep_queue'[i]].key >= 0
    /\ Len(sleep_queue') > 0 => pcb_table'[sleep_queue'[1]].key >= 1
    /\ \A i \in 1 .. Len(sleep_queue') :
          /\ Sleeping(K', sleep_queue'[i])
          /\ Remaining(i)' = wake_left'[sleep_queue'[i]]
    /\ \A i, j \in 1 .. Len(sleep_queue') :
          i < j => wake_left'[sleep_queue'[i]] <= wake_left'[sleep_queue'[j]]
    /\ \A i, j \in 1 .. Len(sleep_queue') :
          i # j => sleep_queue'[i] # sleep_queue'[j]
    /\ Cardinality({s \in Slots : Sleeping(K', s)}) = Len(sleep_queue')

\* a process insert has linked is behind every sleeper due no later than it
\* and in front of every sleeper due later
InsertedBehindEquals ==
    \A i \in 1 .. Len(sleep_queue') :
       sleep_queue'[i] \notin SeqToSet(sleep_queue) =>
          /\ evt'.op = "sleep" /\ sleep_queue'[i] = current_proc
          /\ wake_left'[sleep_queue'[i]] = ms_to_time_slices(evt'.args[1])
          /\ \A j \in 1 .. Len(sleep_queue') :
                /\ j < i => wake_left'[sleep_queue'[j]] <= wake_left'[sleep_queue'[i]]
                /\ j > i => wake_left'[sleep_queue'[j]] > wake_left'[sleep_queue'[i]]

\* the sleepers that stay on the list keep their order
OrderKept ==
    SelectSeq(sleep_queue, LAMBDA s : s \in SeqToSet(sleep_queue'))
       = SelectSeq(sleep_queue', LAMBDA s : s \in SeqToSet(sleep_queue))

C36_LastSleeper ==
    /\ (evt.op = "timer" /\ evt.woken # <<>> /\ sleep_queue = <<>>) =>
          /\ Runnable(evt.woken[Len(evt.woken)][1])
          /\ ~evt.null_deref
    /\ (evt.sig # <<>> /\ evt.sig[2] = "SLEEP" /\ sleep_queue = <<>>) =>
          /\ pcb_table[evt.sig[1]].state = "READY"
          /\ ~evt.null_deref

(* ------------------------------------------------------------------ *)
(* The last PID generation (SpecWrap)                                   *)
(* ------------------------------------------------------------------ *)
MaxWrapLive == 3
MaxWrapCreates == 2
\* the create/stop cycles before the first state: slot 1, 30 or 31 is the
\* next slot to be reused
WrapCycles == {0, 29, 30}
\* the generations the Stopped slots are short of their last one
WrapBack == {0, 1}
\* the largest PID slot s can hold: the largest int p with (p - 1) mod 32 = s
LastPid(s) == INT_MAX - ((INT_MAX - (s + 1)) % PCB_TABLE_SIZE)
\* the kernel after every Stopped slot has been reused until its PID is
\* back generations short of the largest it can hold
Old(k, back) ==
    [k EXCEPT !.pcb_table =
        [s \in Slots |->
            IF k.pcb_table[s].state = "STOPPED"
            THEN [k.pcb_table[s] EXCEPT !.pid = LastPid(s) - PCB_TABLE_SIZE * back]
            ELSE k.pcb_table[s]],
              !.dead_pids = {}]
InitWrap ==
    \E cycles \in WrapCycles, back \in WrapBack :
       InitFrom(Old(Reaped(KBoot, cycles), back))
\* The programs: processes create, yield and stop.
NextWrap ==
    \/ SysCreate(MaxWrapLive, MaxWrapCreates, {TRUE}, {PROCESS_STACK_SIZE})
    \/ SysYield
    \/ SysStop
    \/ SysGetPid

SpecWrap == InitWrap /\ [][NextWrap]_vars

\* C37: when the PID generation of a reused slot overflows the int range the
\* new PID is the old one mod 32, which is >= 1 for every slot, so that the
\* kernel's assertion new_pid >= 1 never fails, and (pid - 1) mod 32 is
\* still the slot.
C37_WrappedPid ==
    /\ ~panic
    /\ \A s \in Live(K) :
          /\ pcb_table[s].pid >= 1
          /\ (pcb_table[s].pid - 1) % PCB_TABLE_SIZE = s
    /\ (evt.op = "create" /\ evt.ret.result_code >= 1
          /\ evt.ret.result_code <= PCB_TABLE_SIZE)
          => pcb_table[evt.ret.result_code - 1].pid = evt.ret.result_code

(* ------------------------------------------------------------------ *)
(* Turns within a priority (SpecTurn)                                   *)
(* ------------------------------------------------------------------ *)
MaxTurnLive == 3
MaxTurnCreates == 2
MaxTurnKeys == 2
TurnMs == {10, 20}
TurnPrios == {2}
TurnReadLens == {1}
\* The programs: the root process creates the others, opens the keyboard
\* and reads a character; the others sleep, the second one after it has
\* raised its priority; everybody yields.  Keys are pressed and the timer
\* ticks.
NextTurn ==
    \/ IsRoot /\ SysCreate(MaxTurnLive, MaxTurnCreates, {TRUE}, {PROCESS_STACK_SIZE})
    \/ SysYield
    \/ ~IsRoot /\ SysSleep(TurnMs)
    \/ current_proc = 2 /\ pcb_table[2].priority = INIT_PRIORITY /\ SysSetPrio(TurnPrios)
    \/ IsRoot /\ SysOpen({0})
    \/ IsRoot /\ SysRead({0}, TurnReadLens, {TRUE})
    \/ KbdInt({NextKey}, {}, MaxTurnKeys)
    \/ TimerInt({})

SpecTurn == Init /\ [][NextTurn]_vars

\* the processes of priority pr in the order in which they get the CPU after
\* the step: the one next() has picked, then the ready queue
TurnAfter(pr) ==
    IF current_proc' # IDLE /\ pcb_table'[current_proc'].priority = pr
    THEN <<current_proc'>> \o ready_queues'[pr]
    ELSE ready_queues'[pr]
\* the sleepers of priority pr the tick of the step has woken, in the order
\* in which tick made them Ready
WokenAt(pr) ==
    SelectSeq([i \in 1 .. Len(evt'.woken) |-> evt'.woken[i][1]],
              LAMBDA p : pcb_table'[p].priority = pr)
\* the process that was running when the step began, if its priority is pr
RanAt(pr) ==
    IF current_proc # IDLE /\ pcb_table[current_proc].priority = pr
    THEN <<current_proc>> ELSE <<>>
\* the process a keyboard interrupt has made Ready, if its priority is pr
ReaderAt(pr) ==
    IF /\ kbd.kbd_proc \in Slots
       /\ pcb_table[kbd.kbd_proc].state = "BLOCKED"
       /\ pcb_table'[kbd.kbd_proc].state = "READY"
       /\ pcb_table'[kbd.kbd_proc].priority = pr
    THEN <<kbd.kbd_proc>> ELSE <<>>

\* C38: sysyield and a timer interrupt put the running process at the tail
\* of the ready queue of its priority, behind every process already Ready at
\* that priority and behind the sleepers the same tick has woken, and the
\* processes of a priority get the CPU in that order; a keyboard interrupt
\* leaves the interrupted process running and the order of the Ready
\* processes as it was.
C38_FifoTurns ==
    [][/\ evt'.op \in {"yield", "timer"} =>
             \A pr \in Priorities :
                TurnAfter(pr) = ready_queues[pr] \o WokenAt(pr) \o RanAt(pr)
       /\ evt'.op = "kbd" =>
             /\ current_proc' = current_proc
             /\ \A pr \in Priorities :
                   ready_queues'[pr] = ready_queues[pr] \o ReaderAt(pr)]_vars

\* a tick has woken a sleeper while another process of its priority was
\* Ready and a third was running: the woken one is between them
C38_Witness ==
    /\ evt.op = "timer" /\ Len(evt.woken) = 1 /\ evt.cur # IDLE
    /\ pcb_table[evt.cur].priority = INIT_PRIORITY
    /\ pcb_table[evt.woken[1][1]].priority = INIT_PRIORITY
    /\ current_proc \notin {evt.cur, evt.woken[1][1], IDLE}
    /\ ready_queues[INIT_PRIORITY] = <<evt.woken[1][1], evt.cur>>

(* ------------------------------------------------------------------ *)
(* The keyboard's ring buffer (SpecRing)                                *)
(* ------------------------------------------------------------------ *)
MaxRingKeys == 6
RingReadLens == {2, 3}
\* One process opens the keyboard and reads; letters and the EOF character
\* are typed, faster than they are read.
NextRing ==
    \/ SysOpen({0})
    \/ SysRead({0}, RingReadLens, {TRUE})
    \/ KbdInt({NextKey, DEFAULT_EOF}, {}, MaxRingKeys)
    \/ TimerInt({})

SpecRing == Init /\ [][NextRing]_vars

\* the characters the ring buffer kb holds, oldest first: from kbd_buf_tail
\* up to kbd_buf_head
Buffered(kb) ==
    [i \in 1 .. ((kb.kbd_buf_head - kb.kbd_buf_tail + KBD_BUFFER_SIZE) % KBD_BUFFER_SIZE)
        |-> kb.kbd_buf[(kb.kbd_buf_tail + i - 1) % KBD_BUFFER_SIZE]]
\* the step took characters off the front of all, in order, and left the
\* rest buffered; the characters taken, up to an EOF character, are in the
\* reader's buffer one after the other
HandedInOrder(all) ==
    LET left == Buffered(kbd')
        n == Len(all) - Len(left)
        taken == SubSeq(all, 1, n)
        copied == SelectSeq(taken, LAMBDA c : c # kbd.eof)
        at == kbd.chars_transferred
    IN /\ n >= 0 /\ left = SubSeq(all, n + 1, Len(all))
       /\ \A j \in 1 .. (n - 1) : taken[j] # kbd.eof
       /\ n > 0 => kbd'.read_buf # NULLP
       /\ \A j \in 1 .. Len(copied) :
             at + j - 1 < MemLen => ubuf'[kbd'.read_buf][at + j - 1] = copied[j]
\* the step handed no character to a reader
NothingTaken ==
    /\ kbd'.chars_transferred = kbd.chars_transferred
    /\ kbd'.eof_flag = kbd.eof_flag /\ ubuf' = ubuf
RingStep ==
    LET held == Buffered(kbd) IN
    /\ Len(Buffered(kbd')) <= KBD_BUFFER_SIZE - 1
    /\ evt'.op = "kbd" =>
          \E c \in {NextKey, DEFAULT_EOF} :
             IF Len(held) = KBD_BUFFER_SIZE - 1
             THEN /\ HandedInOrder(held)
                  /\ NothingTaken => Buffered(kbd') = held
             ELSE /\ HandedInOrder(held \o <<c>>)
                  /\ NothingTaken => Buffered(kbd') = held \o <<c>>
    /\ evt'.op = "read" => HandedInOrder(held)
    /\ evt'.op \notin {"kbd", "read", "open"} => Buffered(kbd') = held

\* C39: the keyboard's ring buffer never holds more than 4 characters, the
\* buffered characters are handed to readers in the order typed, and a
\* character (the EOF character too) arriving while 4 characters are
\* buffered is discarded and leaves the buffered ones as they were.
C39_RingBuffer == [][RingStep]_vars

\* a fifth key has been pressed with four letters buffered: they are still
\* the buffer, in the order typed
C39_Witness ==
    /\ evt.op = "kbd" /\ kbd.keys = 5
    /\ Buffered(kbd) = <<97, 98, 99, 100>>

(* ------------------------------------------------------------------ *)
(* The count of user processes (SpecCount)                              *)
(* ------------------------------------------------------------------ *)
MaxCountLive == 3
MaxCountCreates == 2
CountSigs == {31}
\* The programs: the root process creates the others, with entry points and
\* stack sizes create refuses too; every process yields, stops, terminates
\* another with signal 31 and receives from anyone.
NextCount ==
    \/ IsRoot /\ SysCreate(MaxCountLive, MaxCountCreates, BOOLEAN, {PROCESS_STACK_SIZE, BigStack})
    \/ SysYield
    \/ SysStop
    \/ SysKill(OtherPids, CountSigs)
    \/ SysRecv({0}, {TRUE})

SpecCount == Init /\ [][NextCount]_vars

\* C40: after kernel initialisation user_proc_count is the number of PCBs
\* of the table that are not Stopped, 0 before the first create, so that
\* the only-process test of receive-any is true exactly when one user
\* process is live.
C40_UserProcCount ==
    /\ KInit.user_proc_count = 0 /\ Live(KInit) = {}
    /\ user_proc_count = Cardinality(Live(K))
    /\ only_process(K) <=> Cardinality(Live(K)) = 1

\* a process has stopped and left one live process of the three there were,
\* which the count shows
C40_Witness ==
    /\ evt.op = "stop" /\ creates >= 2
    /\ Cardinality(Live(K)) = 1 /\ user_proc_count = 1

=============================================================================
